---- MODULE Spec2Model ----
(***************************************************************************)
(* Model of the suggestion-generation pipeline of curation-enricher-ai:    *)
(* the JSON-in-text extractor of the two LLM backends, the three           *)
(* generation methods of each backend, EnrichmentEngine.enrich_dataset     *)
(* and EnrichmentEngine.enrich_datasets_batch, and the life of an engine:  *)
(* EnricherConfig, the constructors, check_connection, apply_suggestion;  *)
(* ClaudeCodeLocalService._invoke_claude on one run of the subprocess, the *)
(* batch under the event loop, and the batch command of the command line.  *)
(*                                                                         *)
(* A text is a sequence of symbols.  A symbol is one character of the      *)
(* text ("{", "[", the double quote, a blank, a backtick ...) or a run of  *)
(* letters that holds no bracket, quote, blank or backtick ("null",        *)
(* "json", "ssn", "user", ...).  A JSON value is a tagged record.          *)
(***************************************************************************)
EXTENDS Integers, Sequences, FiniteSets, TLC

\* ------------------------------------------------------------------------
\* Symbols of a text
\* ------------------------------------------------------------------------
QUOTE == "\""
\* one backtick character (SANY reads a literal backtick as a pragma)
BACKTICK == "backtick"
NL == "\n"
SP == " "
\* the characters json.loads skips between tokens (json.decoder.WHITESPACE)
JsonWs == {SP, NL}
\* the characters str.strip() and the regex class \s remove; FF (form feed)
\* is one that json.loads does not skip
FF == "\f"
PyWs == {SP, NL, FF}
Digits == {"1", "2"}

DigitVal(c) == IF c = "1" THEN 1 ELSE 2

\* ------------------------------------------------------------------------
\* JSON values (what json.loads returns)
\* ------------------------------------------------------------------------
JNull == [t |-> "null"]
JBool(b) == [t |-> "bool", b |-> b]
JNum(n) == [t |-> "num", n |-> n]
\* a str: the sequence of symbols between its quotes
JStr(s) == [t |-> "str", s |-> s]
\* a list
JArr(a) == [t |-> "arr", a |-> a]
\* a dict: its items in insertion order, keys unique; an item is [k, v],
\* k the key (a sequence of symbols)
JObj(o) == [t |-> "obj", o |-> o]

IsDict(v) == v.t = "obj"
IsList(v) == v.t = "arr"
IsStr(v) == v.t = "str"

\* key in d
HasKey(d, k) == \E i \in 1..Len(d.o) : d.o[i].k = k

\* d[key] for a key that is in d
DictGet(d, k) == d.o[CHOOSE i \in 1..Len(d.o) : d.o[i].k = k].v

\* d[key] = v on the item sequence: a key already present keeps its place
DictSet(items, k, v) ==
    IF \E i \in 1..Len(items) : items[i].k = k
    THEN [i \in 1..Len(items) |->
            IF items[i].k = k THEN [k |-> k, v |-> v] ELSE items[i]]
    ELSE Append(items, [k |-> k, v |-> v])

\* ------------------------------------------------------------------------
\* json.loads.  Every intermediate result is handed on as an operator
\* argument, so that each definition reads one step of the decoder.
\* ------------------------------------------------------------------------
ParseFail == [ok |-> FALSE, err |-> "JSONDecodeError"]
ParseDeep == [ok |-> FALSE, err |-> "RecursionError"]

\* the number of lists and dicts the decoder can be inside of at once: the
\* interpreter's recursion limit (1000 frames by default), scaled down to the
\* depth of the texts explored
RecursionLimit == 4
ParseOk(v, next) == [ok |-> TRUE, val |-> v, next |-> next]

RECURSIVE SkipWs(_, _)
SkipWs(text, i) ==
    IF i <= Len(text) /\ text[i] \in JsonWs THEN SkipWs(text, i + 1) ELSE i

\* the index of the first c at or after i, 0 when there is none
FindFrom(text, c, i) ==
    IF \E j \in i..Len(text) : text[j] = c
    THEN CHOOSE j \in i..Len(text) :
            text[j] = c /\ \A k \in i..(j - 1) : text[k] # c
    ELSE 0

\* json.decoder.scanstring from i, just after the opening quote, to the
\* closing quote at j (0: unterminated).  A control character (here the
\* newline and the form feed) inside a string is an error under the default
\* strict=True.
ScanStringTo(text, i, j) ==
    IF j = 0 THEN ParseFail
    ELSE IF \E m \in i..(j - 1) : text[m] \in {NL, FF} THEN ParseFail
    ELSE ParseOk(JStr(SubSeq(text, i, j - 1)), j + 1)

ScanString(text, i) == ScanStringTo(text, i, FindFrom(text, QUOTE, i))

\* NUMBER_RE: the longest run of digits from i, acc its value so far
RECURSIVE ScanNumber(_, _, _)
ScanNumber(text, i, acc) ==
    IF i <= Len(text) /\ text[i] \in Digits
    THEN ScanNumber(text, i + 1, 10 * acc + DigitVal(text[i]))
    ELSE ParseOk(JNum(acc), i)

RECURSIVE ScanOnce(_, _, _)
RECURSIVE ArrayItems(_, _, _, _)
RECURSIVE ObjectItems(_, _, _, _)

\* json.decoder.JSONArray: after a value, the closing bracket or a comma
ArraySep(text, j, acc, depth) ==
    IF j > Len(text) THEN ParseFail
    ELSE IF text[j] = "]" THEN ParseOk(JArr(acc), j + 1)
    ELSE IF text[j] = "," THEN ArrayItems(text, SkipWs(text, j + 1), acc, depth)
    ELSE ParseFail

\* r: the scan of the value that starts an item
ArrayValue(text, r, acc, depth) ==
    IF ~r.ok THEN r
    ELSE ArraySep(text, SkipWs(text, r.next), Append(acc, r.val), depth)

\* the items of a list from the value at i on, acc the values so far
ArrayItems(text, i, acc, depth) == ArrayValue(text, ScanOnce(text, i, depth), acc, depth)

\* j: the first index after "[" that is not whitespace
ArrayStart(text, j, depth) ==
    IF j <= Len(text) /\ text[j] = "]" THEN ParseOk(JArr(<<>>), j + 1)
    ELSE ArrayItems(text, j, <<>>, depth)

\* json.decoder.JSONObject: after a value, the closing brace or a comma
ObjectSep(text, j, items, depth) ==
    IF j > Len(text) THEN ParseFail
    ELSE IF text[j] = "}" THEN ParseOk(JObj(items), j + 1)
    ELSE IF text[j] = "," THEN ObjectItems(text, SkipWs(text, j + 1), items, depth)
    ELSE ParseFail

\* r: the scan of the value of key k
ObjectValue(text, k, r, acc, depth) ==
    IF ~r.ok THEN r
    ELSE ObjectSep(text, SkipWs(text, r.next), DictSet(acc, k, r.val), depth)

\* c: the first index after the key that is not whitespace, the colon's
ObjectColon(text, k, c, acc, depth) ==
    IF c > Len(text) \/ text[c] # ":" THEN ParseFail
    ELSE ObjectValue(text, k, ScanOnce(text, SkipWs(text, c + 1), depth), acc, depth)

\* key: the scan of the key string
ObjectKey(text, key, acc, depth) ==
    IF ~key.ok THEN ParseFail
    ELSE ObjectColon(text, key.val.s, SkipWs(text, key.next), acc, depth)

\* the items of a dict from the key at i on: a key must open with a quote
ObjectItems(text, i, acc, depth) ==
    IF i > Len(text) \/ text[i] # QUOTE THEN ParseFail
    ELSE ObjectKey(text, ScanString(text, i + 1), acc, depth)

\* j: the first index after "{" that is not whitespace
ObjectStart(text, j, depth) ==
    IF j <= Len(text) /\ text[j] = "}" THEN ParseOk(JObj(<<>>), j + 1)
    ELSE ObjectItems(text, j, <<>>, depth)

\* json.scanner.c_make_scanner, scan_once: one value starting at i, below
\* depth lists and dicts that are still open.  Each list or dict entered is
\* one recursive call of the decoder; past the interpreter's limit it raises
\* RecursionError instead of json.JSONDecodeError.
ScanOnce(text, i, depth) ==
    IF i > Len(text) THEN ParseFail
    ELSE IF text[i] = QUOTE THEN ScanString(text, i + 1)
    ELSE IF text[i] \in {"{", "["} /\ depth >= RecursionLimit THEN ParseDeep
    ELSE IF text[i] = "{" THEN ObjectStart(text, SkipWs(text, i + 1), depth + 1)
    ELSE IF text[i] = "[" THEN ArrayStart(text, SkipWs(text, i + 1), depth + 1)
    ELSE IF text[i] = "null" THEN ParseOk(JNull, i + 1)
    ELSE IF text[i] = "true" THEN ParseOk(JBool(TRUE), i + 1)
    ELSE IF text[i] = "false" THEN ParseOk(JBool(FALSE), i + 1)
    ELSE IF text[i] \in Digits THEN ScanNumber(text, i, 0)
    ELSE ParseFail

\* r: the scan of the value; only whitespace may follow it ("Extra data")
LoadsEnd(text, r) ==
    IF ~r.ok THEN [ok |-> FALSE, err |-> r.err]
    ELSE IF SkipWs(text, r.next) = Len(text) + 1 THEN [ok |-> TRUE, val |-> r.val]
    ELSE ParseFail

\* json.loads(text): leading whitespace skipped, one value, trailing
\* whitespace skipped.  A result that is not ok names what json.loads
\* raised: json.JSONDecodeError or RecursionError.
JsonLoads(text) == LoadsEnd(text, ScanOnce(text, SkipWs(text, 1), 0))

\* ------------------------------------------------------------------------
\* Library helpers of the extractor: str.find, str.strip, re.search
\* ------------------------------------------------------------------------
Min(a, b) == IF a <= b THEN a ELSE b

\* text.find(c) as a 1-based index, 0 for Python's -1
Find(text, c) == FindFrom(text, c, 1)

\* str.strip(): whitespace removed at both ends
RECURSIVE LStrip(_)
LStrip(text) ==
    IF text # <<>> /\ Head(text) \in PyWs THEN LStrip(Tail(text)) ELSE text

RECURSIVE RStrip(_)
RStrip(text) ==
    IF text # <<>> /\ text[Len(text)] \in PyWs
    THEN RStrip(SubSeq(text, 1, Len(text) - 1))
    ELSE text

Strip(text) == RStrip(LStrip(text))

\* three backticks start at i
IsFence(text, i) ==
    /\ i >= 1
    /\ i + 2 <= Len(text)
    /\ text[i] = BACKTICK /\ text[i + 1] = BACKTICK /\ text[i + 2] = BACKTICK

\* the first index >= i where three backticks start, 0 when there is none
FindFence(text, i) ==
    IF \E j \in i..Len(text) : IsFence(text, j)
    THEN CHOOSE j \in i..Len(text) :
            IsFence(text, j) /\ \A k \in i..(j - 1) : ~IsFence(text, k)
    ELSE 0

\* the body of a fence that opens before e, up to the closing fence
FenceBody(text, e, close) ==
    IF close = 0 THEN [found |-> FALSE]
    ELSE [found |-> TRUE, group1 |-> SubSeq(text, e, close - 1)]

\* e: the index after the opening fence and its optional json tag
FenceClose(text, e) == FenceBody(text, e, FindFence(text, e))

\* variant: the regex without its optional json tag
FenceOpenUntagged(text, open) ==
    IF open = 0 THEN [found |-> FALSE]
    ELSE FenceClose(text, open + 3)

FenceOpen(text, open) ==
    IF open = 0 THEN [found |-> FALSE]
    ELSE IF open + 3 <= Len(text) /\ text[open + 3] = "json"
         THEN FenceClose(text, open + 4)
    ELSE FenceClose(text, open + 3)

\* re.search(r"```(?:json)?\s*\n?(.*?)\n?```", text, re.DOTALL): the
\* leftmost opening fence, an optional json tag, then lazily up to the first
\* closing fence after it.  [found, group1]; group1 keeps the whitespace that
\* \s* and \n? may or may not have consumed: both callers strip it.
FenceSearch(text) == FenceOpen(text, FindFence(text, 1))

\* json.loads(json_match.group(1).strip()) when the regex matched
FenceLoads(m) == IF m.found THEN JsonLoads(Strip(m.group1)) ELSE ParseFail

\* ------------------------------------------------------------------------
\* _extract_json_from_response
\* ------------------------------------------------------------------------
\* the number of characters of the text kept in the ValueError message
PreviewLen == 200

Ret(v) == [exc |-> "none", val |-> v]
Returned(v, via) == [exc |-> "none", val |-> v, via |-> via]
Raised(e) == [exc |-> e]
ExtractionError(text) ==
    [exc |-> "ValueError", preview |-> SubSeq(text, 1, Min(PreviewLen, Len(text)))]

\* ClaudeCodeLocalService._extract_json_from_response: the inner loop of the bracket scan,
\* from index i with the depth so far up to the index where the depth is
\* back to zero; 0 when the text ends first
RECURSIVE CC_MatchEnd(_, _, _, _, _)
CC_MatchEnd(text, i, depth, start_char, end_char) ==
    IF i > Len(text) THEN 0
    ELSE IF text[i] = start_char
         THEN CC_MatchEnd(text, i + 1, depth + 1, start_char, end_char)
    ELSE IF text[i] = end_char
         THEN IF depth - 1 = 0 THEN i
              ELSE CC_MatchEnd(text, i + 1, depth - 1, start_char, end_char)
    ELSE CC_MatchEnd(text, i + 1, depth, start_char, end_char)

\* the parse of text[start : i + 1], or the break out of the inner loop
CC_Capture(text, start, i) ==
    IF i = 0 THEN ParseFail ELSE JsonLoads(SubSeq(text, start, i))

\* start = text.find(start_char); -1 (here 0): continue
CC_ScanFrom(text, start, start_char, end_char) ==
    IF start = 0 THEN ParseFail
    ELSE CC_Capture(text, start, CC_MatchEnd(text, start, 0, start_char, end_char))

\* one turn of the loop over the bracket pairs
CC_BracketScan(text, start_char, end_char) ==
    CC_ScanFrom(text, Find(text, start_char), start_char, end_char)

\* a variant that consults the bracket scan before the direct parse
CC_FirstParseScanFirst(text, direct, fenced, braces, brackets) ==
    IF braces.ok THEN Returned(braces.val, "scan")
    ELSE IF brackets.ok THEN Returned(brackets.val, "scan")
    ELSE IF direct.ok THEN Returned(direct.val, "direct")
    ELSE IF fenced.ok THEN Returned(fenced.val, "fence")
    ELSE ExtractionError(text)

\* the strategies in the order of the code: the first that parses returns;
\* each except clause catches json.JSONDecodeError only, anything else that
\* json.loads raises leaves the function
CC_FirstParse(text, direct, fenced, braces, brackets) ==
    IF direct.ok THEN Returned(direct.val, "direct")
    ELSE IF direct.err # "JSONDecodeError" THEN Raised(direct.err)
    ELSE IF fenced.ok THEN Returned(fenced.val, "fence")
    ELSE IF fenced.err # "JSONDecodeError" THEN Raised(fenced.err)
    ELSE IF braces.ok THEN Returned(braces.val, "scan")
    ELSE IF braces.err # "JSONDecodeError" THEN Raised(braces.err)
    ELSE IF brackets.ok THEN Returned(brackets.val, "scan")
    ELSE IF brackets.err # "JSONDecodeError" THEN Raised(brackets.err)
    ELSE ExtractionError(text)

CC_extract_json_from_response(text) ==
    CC_FirstParse(text,
                  JsonLoads(text),
                  FenceLoads(FenceSearch(text)),
                  CC_BracketScan(text, "{", "}"),
                  CC_BracketScan(text, "[", "]"))

\* AnthropicAPIService._extract_json_from_response: the inner loop of the bracket scan,
\* from index i with the depth so far up to the index where the depth is
\* back to zero; 0 when the text ends first
RECURSIVE API_MatchEnd(_, _, _, _, _)
API_MatchEnd(text, i, depth, start_char, end_char) ==
    IF i > Len(text) THEN 0
    ELSE IF text[i] = start_char
         THEN API_MatchEnd(text, i + 1, depth + 1, start_char, end_char)
    ELSE IF text[i] = end_char
         THEN IF depth - 1 = 0 THEN i
              ELSE API_MatchEnd(text, i + 1, depth - 1, start_char, end_char)
    ELSE API_MatchEnd(text, i + 1, depth, start_char, end_char)

\* the parse of text[start : i + 1], or the break out of the inner loop
API_Capture(text, start, i) ==
    IF i = 0 THEN ParseFail ELSE JsonLoads(SubSeq(text, start, i))

\* start = text.find(start_char); -1 (here 0): continue
API_ScanFrom(text, start, start_char, end_char) ==
    IF start = 0 THEN ParseFail
    ELSE API_Capture(text, start, API_MatchEnd(text, start, 0, start_char, end_char))

\* one turn of the loop over the bracket pairs
API_BracketScan(text, start_char, end_char) ==
    API_ScanFrom(text, Find(text, start_char), start_char, end_char)

\* the strategies in the order of the code: the first that parses returns;
\* each except clause catches json.JSONDecodeError only, anything else that
\* json.loads raises leaves the function
API_FirstParse(text, direct, fenced, braces, brackets) ==
    IF direct.ok THEN Returned(direct.val, "direct")
    ELSE IF direct.err # "JSONDecodeError" THEN Raised(direct.err)
    ELSE IF fenced.ok THEN Returned(fenced.val, "fence")
    ELSE IF fenced.err # "JSONDecodeError" THEN Raised(fenced.err)
    ELSE IF braces.ok THEN Returned(braces.val, "scan")
    ELSE IF braces.err # "JSONDecodeError" THEN Raised(braces.err)
    ELSE IF brackets.ok THEN Returned(brackets.val, "scan")
    ELSE IF brackets.err # "JSONDecodeError" THEN Raised(brackets.err)
    ELSE ExtractionError(text)

API_extract_json_from_response(text) ==
    API_FirstParse(text,
                  JsonLoads(text),
                  FenceLoads(FenceSearch(text)),
                  API_BracketScan(text, "{", "}"),
                  API_BracketScan(text, "[", "]"))

\* ------------------------------------------------------------------------
\* Python operations the generation methods apply to a parsed value
\* ------------------------------------------------------------------------
\* d.get(key, default) on a dict d
DictGetOr(d, k, default) == IF HasKey(d, k) THEN DictGet(d, k) ELSE default

\* the decimal digits of a natural number
RECURSIVE DigitsOf(_)
DigitsOf(n) ==
    IF n < 10
    THEN <<CASE n = 1 -> "1" [] n = 2 -> "2" [] OTHER -> "0">>
    ELSE Append(DigitsOf(n \div 10),
                CASE n % 10 = 1 -> "1" [] n % 10 = 2 -> "2" [] OTHER -> "0")

\* repr(v) of a parsed value, as symbols
RECURSIVE PyRepr(_)
RECURSIVE PyReprList(_, _)
RECURSIVE PyReprDict(_, _)
PyReprList(a, i) ==
    IF i > Len(a) THEN <<>>
    ELSE IF i = Len(a) THEN PyRepr(a[i])
    ELSE PyRepr(a[i]) \o <<",", SP>> \o PyReprList(a, i + 1)

PyReprDict(o, i) ==
    IF i > Len(o) THEN <<>>
    ELSE <<"'">> \o o[i].k \o <<"'", ":", SP>> \o PyRepr(o[i].v)
         \o (IF i = Len(o) THEN <<>> ELSE <<",", SP>> \o PyReprDict(o, i + 1))

PyRepr(v) ==
    CASE v.t = "null" -> <<"None">>
      [] v.t = "bool" -> IF v.b THEN <<"True">> ELSE <<"False">>
      [] v.t = "num" -> DigitsOf(v.n)
      [] v.t = "str" -> <<"'">> \o v.s \o <<"'">>
      [] v.t = "arr" -> <<"[">> \o PyReprList(v.a, 1) \o <<"]">>
      [] v.t = "obj" -> <<"{">> \o PyReprDict(v.o, 1) \o <<"}">>

\* str(v): a str is itself, anything else its repr
PyStr(v) == IF IsStr(v) THEN v.s ELSE PyRepr(v)

\* iter(v), the items a for loop over v visits: the elements of a list, the
\* keys of a dict, the characters of a str (each a str); TypeError for a
\* value that is not iterable
PyIter(v) ==
    CASE v.t = "arr" -> Ret(v.a)
      [] v.t = "obj" -> Ret([i \in 1..Len(v.o) |-> JStr(v.o[i].k)])
      [] v.t = "str" -> Ret([i \in 1..Len(v.s) |-> JStr(<<v.s[i]>>)])
      [] OTHER -> Raised("TypeError")

\* ------------------------------------------------------------------------
\* ClaudeCodeLocalService: the three generation methods, from the answer on.  response is
\* what the transport handed back: Raised(e) when the call raised, Ret(text)
\* otherwise; parsed is what _extract_json_from_response returned or raised.
\* ------------------------------------------------------------------------
CC_Descriptions(parsed) ==
    IF parsed.exc = "ValueError" THEN Ret(<<>>)
    ELSE IF parsed.exc # "none" THEN Raised(parsed.exc)
    ELSE IF IsDict(parsed.val)
         THEN Ret([i \in 1..Len(parsed.val.o) |->
                     [k |-> parsed.val.o[i].k, v |-> PyStr(parsed.val.o[i].v)]])
    ELSE Ret(<<>>)

CC_generate_column_descriptions(response) ==
    IF response.exc # "none" THEN response
    ELSE CC_Descriptions(CC_extract_json_from_response(response.val))

\* a variant of the comprehension whose filter keeps high confidence only
RECURSIVE CC_PiiFieldsHighOnly(_, _, _)
CC_PiiFieldsHighOnly(items, i, acc) ==
    IF i > Len(items) THEN Ret(acc)
    ELSE IF ~IsDict(items[i]) THEN Raised("AttributeError")
    ELSE IF DictGetOr(items[i], <<"confidence">>, JNull) = JStr(<<"high">>)
         THEN IF HasKey(items[i], <<"field_path">>)
              THEN CC_PiiFieldsHighOnly(items, i + 1,
                                        Append(acc, DictGet(items[i], <<"field_path">>)))
              ELSE Raised("KeyError")
    ELSE CC_PiiFieldsHighOnly(items, i + 1, acc)

\* the list comprehension of detect_pii_columns over the items from index i
\* on, acc the field paths kept so far: the filter item.get("confidence") is
\* evaluated before item["field_path"]
RECURSIVE CC_PiiFields(_, _, _)
CC_PiiFields(items, i, acc) ==
    IF i > Len(items) THEN Ret(acc)
    ELSE IF ~IsDict(items[i]) THEN Raised("AttributeError")
    ELSE IF DictGetOr(items[i], <<"confidence">>, JNull)
              \in {JStr(<<"high">>), JStr(<<"medium">>)}
         THEN IF HasKey(items[i], <<"field_path">>)
              THEN CC_PiiFields(items, i + 1,
                                Append(acc, DictGet(items[i], <<"field_path">>)))
              ELSE Raised("KeyError")
    ELSE CC_PiiFields(items, i + 1, acc)

\* except (ValueError, KeyError, TypeError): the method returns []
CC_PiiExcept(r) ==
    IF r.exc \in {"ValueError", "KeyError", "TypeError"} THEN Ret(<<>>) ELSE r

\* it: iter(parsed["pii_columns"])
CC_PiiLoop(it) ==
    IF it.exc # "none" THEN it ELSE CC_PiiFields(it.val, 1, <<>>)

CC_Pii(parsed) ==
    IF parsed.exc # "none" THEN CC_PiiExcept(Raised(parsed.exc))
    ELSE IF IsDict(parsed.val) /\ HasKey(parsed.val, <<"pii_columns">>)
         THEN CC_PiiExcept(CC_PiiLoop(PyIter(DictGet(parsed.val, <<"pii_columns">>))))
    ELSE Ret(<<>>)

CC_detect_pii_columns(response) ==
    IF response.exc # "none" THEN response
    ELSE CC_Pii(CC_extract_json_from_response(response.val))

\* the list comprehension of suggest_tags: item["tag"] for each item
RECURSIVE CC_TagItems(_, _, _)
CC_TagItems(items, i, acc) ==
    IF i > Len(items) THEN Ret(acc)
    ELSE IF ~IsDict(items[i]) THEN Raised("TypeError")
    ELSE IF HasKey(items[i], <<"tag">>)
         THEN CC_TagItems(items, i + 1, Append(acc, DictGet(items[i], <<"tag">>)))
    ELSE Raised("KeyError")

CC_TagsExcept(r) ==
    IF r.exc \in {"ValueError", "KeyError", "TypeError"} THEN Ret(<<>>) ELSE r

\* it: iter(parsed["suggested_tags"])
CC_TagsLoop(it) ==
    IF it.exc # "none" THEN it ELSE CC_TagItems(it.val, 1, <<>>)

CC_Tags(parsed) ==
    IF parsed.exc # "none" THEN CC_TagsExcept(Raised(parsed.exc))
    ELSE IF IsDict(parsed.val) /\ HasKey(parsed.val, <<"suggested_tags">>)
         THEN CC_TagsExcept(CC_TagsLoop(PyIter(DictGet(parsed.val, <<"suggested_tags">>))))
    ELSE Ret(<<>>)

CC_suggest_tags(response) ==
    IF response.exc # "none" THEN response
    ELSE CC_Tags(CC_extract_json_from_response(response.val))

\* ------------------------------------------------------------------------
\* AnthropicAPIService: the three generation methods, from the answer on.  response is
\* what the transport handed back: Raised(e) when the call raised, Ret(text)
\* otherwise; parsed is what _extract_json_from_response returned or raised.
\* ------------------------------------------------------------------------
API_Descriptions(parsed) ==
    IF parsed.exc = "ValueError" THEN Ret(<<>>)
    ELSE IF parsed.exc # "none" THEN Raised(parsed.exc)
    ELSE IF IsDict(parsed.val)
         THEN Ret([i \in 1..Len(parsed.val.o) |->
                     [k |-> parsed.val.o[i].k, v |-> PyStr(parsed.val.o[i].v)]])
    ELSE Ret(<<>>)

API_generate_column_descriptions(response) ==
    IF response.exc # "none" THEN response
    ELSE API_Descriptions(API_extract_json_from_response(response.val))

\* the list comprehension of detect_pii_columns over the items from index i
\* on, acc the field paths kept so far: the filter item.get("confidence") is
\* evaluated before item["field_path"]
RECURSIVE API_PiiFields(_, _, _)
API_PiiFields(items, i, acc) ==
    IF i > Len(items) THEN Ret(acc)
    ELSE IF ~IsDict(items[i]) THEN Raised("AttributeError")
    ELSE IF DictGetOr(items[i], <<"confidence">>, JNull)
              \in {JStr(<<"high">>), JStr(<<"medium">>)}
         THEN IF HasKey(items[i], <<"field_path">>)
              THEN API_PiiFields(items, i + 1,
                                Append(acc, DictGet(items[i], <<"field_path">>)))
              ELSE Raised("KeyError")
    ELSE API_PiiFields(items, i + 1, acc)

\* except (ValueError, KeyError, TypeError): the method returns []
API_PiiExcept(r) ==
    IF r.exc \in {"ValueError", "KeyError", "TypeError"} THEN Ret(<<>>) ELSE r

\* it: iter(parsed["pii_columns"])
API_PiiLoop(it) ==
    IF it.exc # "none" THEN it ELSE API_PiiFields(it.val, 1, <<>>)

API_Pii(parsed) ==
    IF parsed.exc # "none" THEN API_PiiExcept(Raised(parsed.exc))
    ELSE IF IsDict(parsed.val) /\ HasKey(parsed.val, <<"pii_columns">>)
         THEN API_PiiExcept(API_PiiLoop(PyIter(DictGet(parsed.val, <<"pii_columns">>))))
    ELSE Ret(<<>>)

API_detect_pii_columns(response) ==
    IF response.exc # "none" THEN response
    ELSE API_Pii(API_extract_json_from_response(response.val))

\* the list comprehension of suggest_tags: item["tag"] for each item
RECURSIVE API_TagItems(_, _, _)
API_TagItems(items, i, acc) ==
    IF i > Len(items) THEN Ret(acc)
    ELSE IF ~IsDict(items[i]) THEN Raised("TypeError")
    ELSE IF HasKey(items[i], <<"tag">>)
         THEN API_TagItems(items, i + 1, Append(acc, DictGet(items[i], <<"tag">>)))
    ELSE Raised("KeyError")

API_TagsExcept(r) ==
    IF r.exc \in {"ValueError", "KeyError", "TypeError"} THEN Ret(<<>>) ELSE r

\* it: iter(parsed["suggested_tags"])
API_TagsLoop(it) ==
    IF it.exc # "none" THEN it ELSE API_TagItems(it.val, 1, <<>>)

API_Tags(parsed) ==
    IF parsed.exc # "none" THEN API_TagsExcept(Raised(parsed.exc))
    ELSE IF IsDict(parsed.val) /\ HasKey(parsed.val, <<"suggested_tags">>)
         THEN API_TagsExcept(API_TagsLoop(PyIter(DictGet(parsed.val, <<"suggested_tags">>))))
    ELSE Ret(<<>>)

API_suggest_tags(response) ==
    IF response.exc # "none" THEN response
    ELSE API_Tags(API_extract_json_from_response(response.val))

\* ------------------------------------------------------------------------
\* Inputs: texts written from values
\* ------------------------------------------------------------------------
Str(w) == JStr(<<w>>)
Item(key, v) == [k |-> <<key>>, v |-> v]

\* the text of a value (json.dumps with compact separators)
RECURSIVE Dumps(_)
RECURSIVE DumpsList(_, _)
RECURSIVE DumpsDict(_, _)
DumpsList(a, i) ==
    IF i > Len(a) THEN <<>>
    ELSE IF i = Len(a) THEN Dumps(a[i])
    ELSE Dumps(a[i]) \o <<",">> \o DumpsList(a, i + 1)

DumpsDict(o, i) ==
    IF i > Len(o) THEN <<>>
    ELSE <<QUOTE>> \o o[i].k \o <<QUOTE, ":">> \o Dumps(o[i].v)
         \o (IF i = Len(o) THEN <<>> ELSE <<",">> \o DumpsDict(o, i + 1))

Dumps(v) ==
    CASE v.t = "null" -> <<"null">>
      [] v.t = "bool" -> IF v.b THEN <<"true">> ELSE <<"false">>
      [] v.t = "num" -> DigitsOf(v.n)
      [] v.t = "str" -> <<QUOTE>> \o v.s \o <<QUOTE>>
      [] v.t = "arr" -> <<"[">> \o DumpsList(v.a, 1) \o <<"]">>
      [] v.t = "obj" -> <<"{">> \o DumpsDict(v.o, 1) \o <<"}">>

\* the sequences over S of length at most n
SeqsUpTo(S, n) == UNION {[1..m -> S] : m \in 0..n}

\* bounds of the inputs
MaxItems == 2
MaxPad == 1

\* structured literals: lists and dicts over a few elements, one level of
\* nesting
LiteralElems == {JNum(1), Str("a"), JNull, JArr(<<JNum(2)>>), JObj(<<Item("a", JNum(1))>>)}
LiteralValues ==
    {JArr(a) : a \in SeqsUpTo(LiteralElems, MaxItems)}
    \cup {JObj(<<>>)}
    \cup {JObj(<<Item("a", e)>>) : e \in LiteralElems}
    \cup {JObj(<<Item("a", e), Item("b", JArr(a))>>) :
            e \in {JNum(1), Str("a")}, a \in SeqsUpTo({JNum(1), JObj(<<Item("b", JNull)>>)}, MaxItems)}

\* a literal with JSON whitespace before and after it
Pads == SeqsUpTo(JsonWs, MaxPad)

\* texts no strategy can parse
Unparseable == {<<>>, <<"x">>, <<"x", SP, "{", "x", "}">>, <<"[", "1", ",", "]">>}

\* lists nested one deeper than the decoder can follow: left open, closed,
\* inside commentary and inside a fenced block
Opening(n) == [i \in 1..n |-> "["]
Closing(n) == [i \in 1..n |-> "]"]
Nested(n) == Opening(n) \o <<"1">> \o Closing(n)
TooDeep ==
    {Opening(RecursionLimit + 1),
     Nested(RecursionLimit + 1),
     <<"x", SP>> \o Nested(RecursionLimit + 1) \o <<SP, "x">>,
     <<BACKTICK, BACKTICK, BACKTICK, "json", NL>> \o Nested(RecursionLimit + 1)
        \o <<NL, BACKTICK, BACKTICK, BACKTICK>>}

\* a text longer than the preview of the error message
Overlong == {[i \in 1..(PreviewLen + 1) |-> "x"]}

\* a text as the model may wrap it: bare, inside a json fence within prose,
\* or between two pieces of commentary
Bare(t) == t
Fenced(t) == <<"x", SP, BACKTICK, BACKTICK, BACKTICK, "json", NL>> \o t
             \o <<NL, BACKTICK, BACKTICK, BACKTICK, SP, "x">>
Commented(t) == <<"x", ":", SP>> \o t \o <<SP, "x">>

\* a fenced block inside prose: the prose before it and after it (plain,
\* with brackets, with a quote, with a block of its own), the opening fence
\* with or without the json tag, the closing fence, and the interior
TripleBacktick == <<BACKTICK, BACKTICK, BACKTICK>>
ProseBefore ==
    {<<>>, <<"x", SP>>, <<"{", "x", "}", SP>>, <<"[", "1", "]", SP>>, <<QUOTE>>,
     <<"x", BACKTICK>>,
     TripleBacktick \o <<NL, "x", NL>> \o TripleBacktick \o <<NL>>}
ProseAfter ==
    {<<>>, <<SP, "x">>, <<SP, "{", "}">>, <<QUOTE>>,
     <<NL>> \o TripleBacktick \o <<"x">> \o TripleBacktick}
FenceOpeners ==
    {TripleBacktick \o tag \o ws : tag \in {<<>>, <<"json">>}, ws \in {<<>>, <<NL>>, <<SP>>}}
FenceClosers == {ws \o TripleBacktick : ws \in {<<>>, <<NL>>}}
BlockValues ==
    {JObj(<<Item("a", JNum(1))>>), JArr(<<JObj(<<Item("a", JNum(1))>>)>>), JArr(<<>>),
     JNum(1), Str("a"), JStr(TripleBacktick), JObj(<<Item("a", JStr(TripleBacktick))>>)}

\* one list or dict between two pieces of commentary that hold no bracket, no
\* quote and no backtick
CommentBefore == {<<"x", ":", SP>>, <<"x", SP>>}
CommentAfter == {<<SP, "x">>, <<SP, "-", "-", SP, "x">>}
CommentedValues ==
    LiteralValues
    \cup {JObj(<<Item("a", Str("}"))>>), JObj(<<Item("a", Str("{"))>>), JArr(<<Str("]")>>),
          JArr(<<Str("[")>>)}

\* records of a pii_columns list: field_path and confidence, each present or
\* not
PiiRecords ==
    {(IF fp = "absent" THEN <<>> ELSE <<Item("field_path", Str(fp))>>)
       \o (IF conf = "absent" THEN <<>> ELSE <<Item("confidence", Str(conf))>>) :
        fp \in {"absent", "ssn", "notes"},
        conf \in {"absent", "high", "medium", "low", "certain"}}
\* list elements that are not records
NonRecords == {Str("ssn"), JNull, JNum(1), JArr(<<>>)}
PiiElems == {JObj(r) : r \in PiiRecords} \cup NonRecords
\* values under the envelope key that are not lists
NonLists == {JNull, JNum(1), Str("ssn"), JStr(<<>>), JObj(<<>>), JObj(<<Item("a", JNum(1))>>)}
PiiEnvelopes ==
    {JObj(<<Item("pii_columns", JArr(a))>>) : a \in SeqsUpTo(PiiElems, MaxItems)}
    \cup {JObj(<<Item("pii_columns", x)>>) : x \in NonLists}
    \cup {JObj(<<Item("pii_columns", JArr(<<JObj(<<Item("field_path", JNull),
                                                   Item("confidence", Str("high"))>>)>>))>>)}

TagElems ==
    {JObj(<<Item("tag", Str("finance"))>>), JObj(<<Item("tag", Str("pii"))>>),
     JObj(<<Item("tag", JNull)>>), JObj(<<Item("name", Str("finance"))>>),
     Str("finance"), JNull, JArr(<<Str("tag")>>)}
TagEnvelopes ==
    {JObj(<<Item("suggested_tags", JArr(a))>>) : a \in SeqsUpTo(TagElems, MaxItems)}
    \cup {JObj(<<Item("suggested_tags", x)>>) : x \in NonLists}

DescriptionMaps ==
    {JObj(o) : o \in SeqsUpTo({Item("user_id", Str("key")), Item("email", JNum(1)),
                               Item("email", JNull)}, MaxItems)}

\* values of the wrong top-level type for every method, or without any
\* envelope key
WrongTop == {JArr(<<>>), JArr(<<Str("ssn")>>), JArr(<<JObj(<<Item("tag", Str("pii"))>>)>>),
             JNum(1), Str("ssn"), JNull, JBool(TRUE)}

EnvelopeValues == PiiEnvelopes \cup TagEnvelopes \cup DescriptionMaps \cup WrongTop

\* ------------------------------------------------------------------------
\* The catalog and the model behind the backends, as the engine sees them:
\* for each dataset urn, what each call attempt returns or raises
\* ------------------------------------------------------------------------
Urns == {"users", "orders", "missing", "absent", "empty", "down", "timeout",
         "garbled", "flaky"}

\* further datasets, enriched one at a time: the model names a column that
\* the schema does not hold ("phantom"), answers a null field_path
\* ("nullpath"), and the catalog fails in a different way on each attempt
\* ("outage"); the entry has no columns in another shape than an empty fields
\* list: schemaMetadata without fields ("nofields"), no schemaMetadata key
\* ("noschema"), schemaMetadata null ("nullschema")
SingleUrns == Urns \cup {"phantom", "nullpath", "outage", "nofields", "noschema",
                         "nullschema"}

Field(path) == JObj(<<Item("fieldPath", Str(path))>>)
DatasetEntry(name, paths) ==
    JObj(<<Item("name", Str(name)),
           Item("description", Str("d")),
           Item("schemaMetadata",
                JObj(<<Item("fields", JArr([i \in 1..Len(paths) |-> Field(paths[i])]))>>))>>)
\* an entry whose schemaMetadata is the given value
EntryWithSchema(name, schema) ==
    JObj(<<Item("name", Str(name)), Item("description", Str("d")),
           Item("schemaMetadata", schema)>>)
\* an entry without the schemaMetadata key
EntryWithoutSchema(name) ==
    JObj(<<Item("name", Str(name)), Item("description", Str("d"))>>)
GraphqlResult(entry) == JObj(<<Item("data", JObj(<<Item("dataset", entry)>>))>>)

\* what attempt number attempt of the GraphQL request for urn produces:
\* response.json(), or the httpx.HTTPError of the request
CatalogResponse(urn, attempt) ==
    CASE urn = "users" -> Ret(GraphqlResult(DatasetEntry("users", <<"ssn", "notes">>)))
      [] urn = "orders" -> Ret(GraphqlResult(DatasetEntry("orders", <<"total">>)))
      [] urn = "missing" -> Ret(GraphqlResult(JNull))
      [] urn = "absent" -> Ret(JObj(<<Item("data", JObj(<<>>))>>))
      [] urn = "empty" -> Ret(GraphqlResult(DatasetEntry("empty", <<>>)))
      [] urn = "nofields" -> Ret(GraphqlResult(EntryWithSchema("nofields", JObj(<<>>))))
      [] urn = "noschema" -> Ret(GraphqlResult(EntryWithoutSchema("noschema")))
      [] urn = "nullschema" -> Ret(GraphqlResult(EntryWithSchema("nullschema", JNull)))
      [] urn = "down" -> Raised("HTTPError")
      [] urn = "outage" -> IF attempt = 1 THEN Raised("ConnectError")
                           ELSE IF attempt = 2 THEN Raised("ReadTimeout")
                           ELSE Raised("HTTPStatusError")
      [] urn = "flaky" -> IF attempt < 2 THEN Raised("HTTPError")
                          ELSE Ret(GraphqlResult(DatasetEntry("flaky", <<"ssn">>)))
      [] OTHER -> Ret(GraphqlResult(DatasetEntry(urn, <<"ssn">>)))

PiiItem(path, confidence) ==
    JObj(<<Item("field_path", Str(path)), Item("confidence", Str(confidence))>>)
TagItem(tag) == JObj(<<Item("tag", Str(tag))>>)

\* what the transport of a backend raises when the call fails: the
\* RuntimeError of _invoke_claude, an error of the Anthropic client
TransportError(backend) == IF backend = "claude-code" THEN "RuntimeError" ELSE "APIError"

\* what attempt number attempt of the model call of a method for urn hands
\* to the method: the answer text, or the error of the transport
BackendResponse(backend, urn, method, attempt) ==
    CASE urn = "users" /\ method = "generate_column_descriptions" ->
           Ret(Bare(Dumps(JObj(<<Item("ssn", Str("id")), Item("notes", Str("text"))>>))))
      [] urn = "users" /\ method = "detect_pii_columns" ->
           Ret(Fenced(Dumps(JObj(<<Item("pii_columns",
                 JArr(<<PiiItem("ssn", "high"), PiiItem("notes", "low")>>))>>))))
      [] urn = "users" /\ method = "suggest_tags" ->
           Ret(Commented(Dumps(JObj(<<Item("suggested_tags",
                 JArr(<<TagItem("finance"), TagItem("pii")>>))>>))))
      [] urn = "orders" /\ method = "generate_column_descriptions" -> Ret(<<"x">>)
      [] urn = "orders" /\ method = "detect_pii_columns" ->
           Ret(Bare(Dumps(JObj(<<Item("pii_columns",
                 JArr(<<PiiItem("total", "medium")>>))>>))))
      [] urn = "timeout" /\ method = "detect_pii_columns" ->
           Raised(TransportError(backend))
      [] urn = "garbled" /\ method = "detect_pii_columns" ->
           Ret(Bare(Dumps(JObj(<<Item("pii_columns", JArr(<<Str("ssn")>>))>>))))
      [] urn = "phantom" /\ method = "generate_column_descriptions" ->
           Ret(Bare(Dumps(JObj(<<Item("ssn", Str("id")), Item("phantom", Str("text"))>>))))
      [] urn = "phantom" /\ method = "detect_pii_columns" ->
           Ret(Bare(Dumps(JObj(<<Item("pii_columns",
                 JArr(<<PiiItem("phantom", "high")>>))>>))))
      [] urn = "nullpath" /\ method = "detect_pii_columns" ->
           Ret(Bare(Dumps(JObj(<<Item("pii_columns",
                 JArr(<<JObj(<<Item("field_path", JNull),
                               Item("confidence", Str("high"))>>)>>))>>))))
      [] urn = "flaky" /\ method = "generate_column_descriptions" /\ attempt < 2
           /\ backend = "anthropic-api" ->
           Raised(TransportError(backend))
      [] method = "generate_column_descriptions" ->
           Ret(Bare(Dumps(JObj(<<Item("ssn", Str("id"))>>))))
      [] method = "detect_pii_columns" ->
           Ret(Bare(Dumps(JObj(<<Item("pii_columns", JArr(<<PiiItem("ssn", "high")>>))>>))))
      [] OTHER ->
           Ret(Bare(Dumps(JObj(<<Item("suggested_tags", JArr(<<TagItem("finance")>>))>>))))

\* ------------------------------------------------------------------------
\* create_llm_service: the method of the configured backend
\* ------------------------------------------------------------------------
Backends == {"claude-code", "anthropic-api"}

LLM_generate_column_descriptions(backend, resp) ==
    IF backend = "claude-code" THEN CC_generate_column_descriptions(resp)
    ELSE API_generate_column_descriptions(resp)

LLM_detect_pii_columns(backend, resp) ==
    IF backend = "claude-code" THEN CC_detect_pii_columns(resp)
    ELSE API_detect_pii_columns(resp)

LLM_suggest_tags(backend, resp) ==
    IF backend = "claude-code" THEN CC_suggest_tags(resp)
    ELSE API_suggest_tags(resp)

\* stop_after_attempt(3) of the retry decorators
MaxAttempts == 3

\* ------------------------------------------------------------------------
\* DataHubClient.get_dataset_schema, from the GraphQL result on
\* ------------------------------------------------------------------------
\* data: result.get("data", {})
GetDataset(data) ==
    IF ~IsDict(data) THEN Raised("AttributeError")
    ELSE Ret(DictGetOr(data, <<"dataset">>, JObj(<<>>)))

get_dataset_schema(result) ==
    IF ~IsDict(result) THEN Raised("AttributeError")
    ELSE GetDataset(DictGetOr(result, <<"data">>, JObj(<<>>)))

\* bool(v) is False
Falsy(v) ==
    \/ v.t = "null"
    \/ v.t = "bool" /\ ~v.b
    \/ v.t = "num" /\ v.n = 0
    \/ v.t = "str" /\ v.s = <<>>
    \/ v.t = "arr" /\ v.a = <<>>
    \/ v.t = "obj" /\ v.o = <<>>


\* ------------------------------------------------------------------------
\* EnrichmentEngine.enrich_dataset as a coroutine frame: its locals, the call
\* it is suspended at (pc), the attempt number of that call under its retry
\* decorator, and what it returned or raised (ret).  origin[i] names the task
\* that appended suggestions[i]; calls counts the calls the frame made.
\* ------------------------------------------------------------------------
EnrichmentSuggestion(dataset_urn, field_path, suggestion_type, suggested_value) ==
    [dataset_urn |-> dataset_urn, field_path |-> field_path,
     suggestion_type |-> suggestion_type, suggested_value |-> suggested_value]

\* a variant order of the tasks: dataset tags first, descriptions last
MethodsTagsFirst == <<"suggest_tags", "detect_pii_columns", "generate_column_descriptions">>

\* the three tasks in the order enrich_dataset runs them
Methods == <<"generate_column_descriptions", "detect_pii_columns", "suggest_tags">>
Position(method) == CHOOSE i \in 1..Len(Methods) : Methods[i] = method

Unset == [t |-> "unset"]
NoCalls == [m \in {"generate_column_descriptions", "detect_pii_columns", "suggest_tags"} |-> 0]

IdleFrame ==
    [pc |-> "idle", dataset_urn |-> "", attempt |-> 0, dataset |-> Unset,
     fields |-> Unset, suggestions |-> <<>>, origin |-> <<>>, calls |-> NoCalls,
     ret |-> [exc |-> "pending"]]

\* the frame of enrich_dataset(dataset_urn) at its first await
NewFrame(dataset_urn) ==
    [IdleFrame EXCEPT !.pc = "get_dataset_schema", !.dataset_urn = dataset_urn,
                      !.attempt = 1]

Return(frame, value) == [frame EXCEPT !.pc = "returned", !.ret = Ret(value)]
\* a variant in which enrich_dataset handles the exception and returns []
RaiseSwallowed(frame, e) == [frame EXCEPT !.pc = "returned", !.ret = Ret(<<>>)]

\* a variant in which enrich_dataset returns what the earlier tasks appended
RaiseKeepsSuggestions(frame, e) ==
    [frame EXCEPT !.pc = "returned", !.ret = Ret(frame.suggestions)]

\* enrich_dataset has no handler: an exception ends the frame
Raise(frame, e) == [frame EXCEPT !.pc = "raised", !.ret = Raised(e)]

\* a variant that gives up one attempt early
RetryOrRaiseEarly(frame, decorated, e) ==
    IF decorated /\ frame.attempt < MaxAttempts - 1
    THEN [frame EXCEPT !.attempt = @ + 1]
    ELSE Raise(frame, e)

\* a variant that repeats a decorated call without counting the attempt
RetryUncounted(frame, decorated, e) ==
    IF decorated THEN frame ELSE Raise(frame, e)

\* tenacity: a failed attempt of a decorated call is repeated until
\* stop_after_attempt, then reraise=True raises the last exception
RetryOrRaise(frame, decorated, e) ==
    IF decorated /\ frame.attempt < MaxAttempts
    THEN [frame EXCEPT !.attempt = @ + 1]
    ELSE Raise(frame, e)

Enabled(config, method) ==
    CASE method = "generate_column_descriptions" -> config.enable_column_descriptions
      [] method = "detect_pii_columns" -> config.enable_pii_detection
      [] method = "suggest_tags" -> config.enable_tag_suggestions

\* a variant that runs every task whatever the flags
NextTaskUngated(config, k) == IF k < Len(Methods) THEN k + 1 ELSE 0

\* the position of the first enabled task after position k, 0 when none
NextTask(config, k) ==
    IF \E j \in (k + 1)..Len(Methods) : Enabled(config, Methods[j])
    THEN CHOOSE j \in (k + 1)..Len(Methods) :
            /\ Enabled(config, Methods[j])
            /\ \A i \in (k + 1)..(j - 1) : ~Enabled(config, Methods[i])
    ELSE 0

\* the call of task j: dataset["name"] is evaluated for its arguments
CallTask(frame, j) ==
    IF ~HasKey(frame.dataset, <<"name">>) THEN Raise(frame, "KeyError")
    ELSE [frame EXCEPT !.pc = Methods[j], !.attempt = 1, !.calls[Methods[j]] = @ + 1]

\* j: the next enabled task, 0 for the final return suggestions
RunTask(frame, j) ==
    IF j = 0 THEN Return(frame, frame.suggestions) ELSE CallTask(frame, j)

\* from the end of task k (0: the schema checks) to the next await or return
Proceed(frame, config, k) == RunTask(frame, NextTask(config, k))

\* a variant without the test of the fields
WithFieldsUnchecked(frame, config, fields) ==
    Proceed([frame EXCEPT !.fields = fields], config, 0)

\* fields = schema.get("fields", []); if not fields: return suggestions
WithFields(frame, config, fields) ==
    IF Falsy(fields) THEN Return([frame EXCEPT !.fields = fields], frame.suggestions)
    ELSE Proceed([frame EXCEPT !.fields = fields], config, 0)

\* schema = dataset.get("schemaMetadata", {})
WithSchema(frame, config, schema) ==
    IF ~IsDict(schema) THEN Raise(frame, "AttributeError")
    ELSE WithFields(frame, config, DictGetOr(schema, <<"fields">>, JArr(<<>>)))

\* a variant without the test of the dataset
WithDatasetUnchecked(frame, config, d) ==
    IF d.exc # "none" THEN Raise(frame, d.exc)
    ELSE IF ~IsDict(d.val) THEN Raise([frame EXCEPT !.dataset = d.val], "AttributeError")
    ELSE WithSchema([frame EXCEPT !.dataset = d.val], config,
                    DictGetOr(d.val, <<"schemaMetadata">>, JObj(<<>>)))

\* dataset = await get_dataset_schema(...); if not dataset: return []
WithDataset(frame, config, d) ==
    IF d.exc # "none" THEN Raise(frame, d.exc)
    ELSE IF Falsy(d.val) THEN Return([frame EXCEPT !.dataset = d.val], <<>>)
    ELSE IF ~IsDict(d.val) THEN Raise([frame EXCEPT !.dataset = d.val], "AttributeError")
    ELSE WithSchema([frame EXCEPT !.dataset = d.val], config,
                    DictGetOr(d.val, <<"schemaMetadata">>, JObj(<<>>)))

\* r: what one attempt of query_graphql returned or raised
AfterQuery(frame, config, r) ==
    IF r.exc # "none" THEN RetryOrRaise(frame, TRUE, r.exc)
    ELSE WithDataset(frame, config, get_dataset_schema(r.val))

\* the suggestions a task appends, and the frame after the append
DescriptionSuggestions(urn, descriptions) ==
    [i \in 1..Len(descriptions) |->
       EnrichmentSuggestion(urn, JStr(descriptions[i].k), "description",
                            JStr(descriptions[i].v))]
PiiSuggestions(urn, pii_columns) ==
    [i \in 1..Len(pii_columns) |->
       EnrichmentSuggestion(urn, pii_columns[i], "tag", Str("PII"))]
TagSuggestions(urn, tags) ==
    [i \in 1..Len(tags) |-> EnrichmentSuggestion(urn, JNull, "tag", tags[i])]

Extend(frame, new, task) ==
    [frame EXCEPT !.suggestions = @ \o new,
                  !.origin = @ \o [i \in 1..Len(new) |-> task]]

\* the methods of AnthropicAPIService carry the retry decorator, those of
\* ClaudeCodeLocalService do not
Decorated(config) == config.llm_backend = "anthropic-api"

\* r: what one attempt of the backend method returned or raised
AfterDescriptions(frame, config, r) ==
    IF r.exc # "none" THEN RetryOrRaise(frame, Decorated(config), r.exc)
    ELSE Proceed(Extend(frame, DescriptionSuggestions(frame.dataset_urn, r.val),
                        "generate_column_descriptions"),
                 config, Position("generate_column_descriptions"))

AfterPii(frame, config, r) ==
    IF r.exc # "none" THEN RetryOrRaise(frame, Decorated(config), r.exc)
    ELSE Proceed(Extend(frame, PiiSuggestions(frame.dataset_urn, r.val),
                        "detect_pii_columns"),
                 config, Position("detect_pii_columns"))

AfterTags(frame, config, r) ==
    IF r.exc # "none" THEN RetryOrRaise(frame, Decorated(config), r.exc)
    ELSE Proceed(Extend(frame, TagSuggestions(frame.dataset_urn, r.val),
                        "suggest_tags"),
                 config, Position("suggest_tags"))

\* what the call the frame is suspended at produces on this attempt
Outcome(frame, config) ==
    CASE frame.pc = "get_dataset_schema" ->
           CatalogResponse(frame.dataset_urn, frame.attempt)
      [] frame.pc = "generate_column_descriptions" ->
           LLM_generate_column_descriptions(config.llm_backend,
               BackendResponse(config.llm_backend, frame.dataset_urn, frame.pc, frame.attempt))
      [] frame.pc = "detect_pii_columns" ->
           LLM_detect_pii_columns(config.llm_backend,
               BackendResponse(config.llm_backend, frame.dataset_urn, frame.pc, frame.attempt))
      [] frame.pc = "suggest_tags" ->
           LLM_suggest_tags(config.llm_backend,
               BackendResponse(config.llm_backend, frame.dataset_urn, frame.pc, frame.attempt))

\* the frame after the call it is suspended at produced r
Resume(frame, config, r) ==
    CASE frame.pc = "get_dataset_schema" -> AfterQuery(frame, config, r)
      [] frame.pc = "generate_column_descriptions" -> AfterDescriptions(frame, config, r)
      [] frame.pc = "detect_pii_columns" -> AfterPii(frame, config, r)
      [] frame.pc = "suggest_tags" -> AfterTags(frame, config, r)

\* ------------------------------------------------------------------------
\* EnrichmentEngine.enrich_datasets_batch: the body of its loop
\* ------------------------------------------------------------------------
\* a variant that keeps no entry for an empty list of suggestions
RecordNonEmpty(results, dataset_urn, suggestions) ==
    IF suggestions = <<>> THEN results
    ELSE [u \in (DOMAIN results) \cup {dataset_urn} |->
            IF u = dataset_urn THEN suggestions ELSE results[u]]

\* a variant in which the entries share one list of suggestions
RecordForAll(results, dataset_urn, suggestions) ==
    [u \in (DOMAIN results) \cup {dataset_urn} |-> suggestions]

\* results[dataset_urn] = suggestions
Record(results, dataset_urn, suggestions) ==
    [u \in (DOMAIN results) \cup {dataset_urn} |->
       IF u = dataset_urn THEN suggestions ELSE results[u]]

\* the exception classes of the model, all subclasses of Exception
ExceptionClasses == {"ValueError", "KeyError", "TypeError", "AttributeError",
                     "RuntimeError", "HTTPError", "ConnectError", "ReadTimeout",
                     "HTTPStatusError", "APIError", "RecursionError"}

\* a variant handler: except (ValueError, KeyError, TypeError)
CatchesParseErrors(e) == e \in {"ValueError", "KeyError", "TypeError"}

\* except Exception
BatchCatches(e) == e \in ExceptionClasses

\* bound of the batch
MaxBatch == 3

VARIABLES
    text,          \* SpecExtract: the text handed to _extract_json_from_response
    response,      \* SpecBackend: what the transport handed to a generation method
    literal,       \* the value the text or the response was written from
    embedded,      \* SpecExtract: the value a block or commentary text carries
    fn,            \* the function applied, "none" before
    out,           \* what the function returned or raised
    config,        \* EnricherConfig: llm_backend and the three enable_ flags
    entry,         \* the method of the engine the caller invoked
    dataset_urns,  \* its argument (one urn for enrich_dataset)
    idx,           \* enrich_datasets_batch: the number of urns the loop has taken
    results,       \* enrich_datasets_batch: results
    bpc,           \* enrich_datasets_batch: "loop", "await", "done" or "raised"
    escaped,       \* the exception that left enrich_datasets_batch, "none" if none
    frame,         \* the frame of the running enrich_dataset call
    awaited,       \* what the last call attempt of the frame returned or raised
    outcomes,      \* what each enrich_dataset call of the batch returned or raised
    settings,      \* SpecLifecycle: the settings EnricherConfig is built from
    environment,   \* whether anthropic can be imported, how the API answers
    suggestion,    \* the argument of apply_suggestion
    enricher_config, \* EnricherConfig(...): the object, or what it raised
    engine,        \* EnrichmentEngine(enricher_config): the object, or what it raised
    service,       \* LLMService(enricher_config): the object, or what it raised
    requests,      \* the requests sent to the Anthropic API so far
    probe,         \* what check_connection returned
    writes,        \* the write operations of DataHubClient called so far
    applied,       \* what apply_suggestion returned
    process,       \* SpecInvoke: how the subprocess of _invoke_claude ended
    cli            \* SpecCli: the frame of the batch command

pureVars == <<text, response, literal, embedded, fn, out>>
engineVars == <<config, entry, dataset_urns, idx, results, bpc, escaped, frame,
                awaited, outcomes>>
lifeVars == <<settings, environment, suggestion, enricher_config, engine, service,
              requests, probe, writes, applied>>
hostVars == <<process, cli>>
vars == <<text, response, literal, embedded, fn, out, config, entry, dataset_urns, idx,
          results, bpc, escaped, frame, awaited, outcomes, settings, environment,
          suggestion, enricher_config, engine, service, requests, probe, writes, applied,
          process, cli>>

Pending == [exc |-> "pending"]
NoLiteral == [t |-> "none"]
NotEmbedded == [how |-> "none"]

\* the engine before any call, and the pure functions not applied
EngineIdle ==
    /\ config = [llm_backend |-> "claude-code", enable_column_descriptions |-> TRUE,
                 enable_pii_detection |-> TRUE, enable_tag_suggestions |-> TRUE]
    /\ entry = "none"
    /\ dataset_urns = <<>>
    /\ idx = 0
    /\ results = <<>>
    /\ bpc = "none"
    /\ escaped = "none"
    /\ frame = IdleFrame
    /\ awaited = Pending
    /\ outcomes = <<>>

\* nothing constructed, probed or applied
LifeIdle ==
    /\ settings = [llm_backend |-> "claude-code", anthropic_api_key |-> JNull,
                   batch_size |-> 10, max_retries |-> 3]
    /\ environment = [anthropic_installed |-> TRUE, api_failures |-> 0]
    /\ suggestion = [t |-> "unset"]
    /\ enricher_config = Pending
    /\ engine = Pending
    /\ service = Pending
    /\ requests = 0
    /\ probe = Pending
    /\ writes = <<>>
    /\ applied = Pending

\* no subprocess run, no command started
NoProcess == [state |-> "none"]
IdleCli == [pc |-> "idle"]
HostIdle ==
    /\ process = NoProcess
    /\ cli = IdleCli

PureIdle ==
    /\ text = <<>>
    /\ response = Pending
    /\ literal = NoLiteral
    /\ embedded = NotEmbedded
    /\ fn = "none"
    /\ out = Pending

\* ------------------------------------------------------------------------
\* SpecExtract: the extractor of each backend applied to one text
\* ------------------------------------------------------------------------
InitExtract ==
    /\ \/ \E lead \in Pads, trail \in Pads, v \in LiteralValues :
             /\ text = lead \o Dumps(v) \o trail
             /\ literal = v
             /\ embedded = NotEmbedded
       \/ /\ text \in Unparseable \cup TooDeep \cup Overlong
          /\ literal = NoLiteral
          /\ embedded = NotEmbedded
       \/ \E before \in ProseBefore, after \in ProseAfter, opener \in FenceOpeners,
             closer \in FenceClosers, v \in BlockValues :
             /\ text = before \o opener \o Dumps(v) \o closer \o after
             /\ literal = NoLiteral
             /\ embedded = [how |-> "fence", val |-> v, open |-> Len(before) + 1]
       \/ \E before \in CommentBefore, after \in CommentAfter, v \in CommentedValues :
             /\ text = before \o Dumps(v) \o after
             /\ literal = NoLiteral
             /\ embedded = [how |-> "commentary", val |-> v, open |-> Len(before) + 1]
    /\ response = Pending
    /\ fn = "none"
    /\ out = Pending
    /\ EngineIdle
    /\ LifeIdle
    /\ HostIdle

CC_Extract ==
    /\ fn = "none"
    /\ fn' = "CC._extract_json_from_response"
    /\ out' = CC_extract_json_from_response(text)
    /\ UNCHANGED <<text, response, literal, embedded, engineVars, lifeVars, hostVars>>

API_Extract ==
    /\ fn = "none"
    /\ fn' = "API._extract_json_from_response"
    /\ out' = API_extract_json_from_response(text)
    /\ UNCHANGED <<text, response, literal, embedded, engineVars, lifeVars, hostVars>>

NextExtract == CC_Extract \/ API_Extract

SpecExtract == InitExtract /\ [][NextExtract]_vars

\* ------------------------------------------------------------------------
\* SpecBackend: one generation method of one backend applied to one answer
\* ------------------------------------------------------------------------
InitBackend ==
    /\ \/ \E v \in EnvelopeValues :
             /\ response \in {Ret(Bare(Dumps(v))), Ret(Fenced(Dumps(v))),
                              Ret(Commented(Dumps(v)))}
             /\ literal = v
       \/ /\ response \in {Ret(t) : t \in Unparseable} \cup {Raised("RuntimeError")}
          /\ literal = NoLiteral
    /\ embedded = NotEmbedded
    /\ text = <<>>
    /\ fn = "none"
    /\ out = Pending
    /\ EngineIdle
    /\ LifeIdle
    /\ HostIdle

CC_GenerateColumnDescriptions ==
    /\ fn = "none"
    /\ fn' = "CC.generate_column_descriptions"
    /\ out' = CC_generate_column_descriptions(response)
    /\ UNCHANGED <<text, response, literal, embedded, engineVars, lifeVars, hostVars>>

CC_DetectPiiColumns ==
    /\ fn = "none"
    /\ fn' = "CC.detect_pii_columns"
    /\ out' = CC_detect_pii_columns(response)
    /\ UNCHANGED <<text, response, literal, embedded, engineVars, lifeVars, hostVars>>

CC_SuggestTags ==
    /\ fn = "none"
    /\ fn' = "CC.suggest_tags"
    /\ out' = CC_suggest_tags(response)
    /\ UNCHANGED <<text, response, literal, embedded, engineVars, lifeVars, hostVars>>

API_GenerateColumnDescriptions ==
    /\ fn = "none"
    /\ fn' = "API.generate_column_descriptions"
    /\ out' = API_generate_column_descriptions(response)
    /\ UNCHANGED <<text, response, literal, embedded, engineVars, lifeVars, hostVars>>

API_DetectPiiColumns ==
    /\ fn = "none"
    /\ fn' = "API.detect_pii_columns"
    /\ out' = API_detect_pii_columns(response)
    /\ UNCHANGED <<text, response, literal, embedded, engineVars, lifeVars, hostVars>>

API_SuggestTags ==
    /\ fn = "none"
    /\ fn' = "API.suggest_tags"
    /\ out' = API_suggest_tags(response)
    /\ UNCHANGED <<text, response, literal, embedded, engineVars, lifeVars, hostVars>>

NextBackend ==
    \/ CC_GenerateColumnDescriptions
    \/ CC_DetectPiiColumns
    \/ CC_SuggestTags
    \/ API_GenerateColumnDescriptions
    \/ API_DetectPiiColumns
    \/ API_SuggestTags

SpecBackend == InitBackend /\ [][NextBackend]_vars

\* ------------------------------------------------------------------------
\* Spec: the engine, called through enrich_dataset or enrich_datasets_batch
\* ------------------------------------------------------------------------
Configs ==
    [llm_backend : Backends, enable_column_descriptions : BOOLEAN,
     enable_pii_detection : BOOLEAN, enable_tag_suggestions : BOOLEAN]

Init ==
    /\ PureIdle
    /\ LifeIdle
    /\ HostIdle
    /\ config \in Configs
    /\ \/ /\ entry = "enrich_dataset"
          /\ dataset_urns \in {<<u>> : u \in SingleUrns}
          /\ bpc = "none"
       \/ /\ entry = "enrich_datasets_batch"
          /\ dataset_urns \in SeqsUpTo(Urns, MaxBatch)
          /\ bpc = "loop"
    /\ idx = 0
    /\ results = <<>>
    /\ escaped = "none"
    /\ frame = IdleFrame
    /\ awaited = Pending
    /\ outcomes = <<>>

\* the caller awaits enrich_dataset(dataset_urn)
EnrichDataset ==
    /\ entry = "enrich_dataset"
    /\ frame.pc = "idle"
    /\ frame' = NewFrame(dataset_urns[1])
    /\ UNCHANGED <<pureVars, lifeVars, hostVars, config, entry, dataset_urns, idx, results, bpc, escaped,
                   awaited, outcomes>>

\* for dataset_urn in dataset_urns: the next urn and the call of
\* enrich_dataset in the try block, or return results
BatchLoop ==
    /\ bpc = "loop"
    /\ IF idx < Len(dataset_urns)
       THEN /\ idx' = idx + 1
            /\ frame' = NewFrame(dataset_urns[idx + 1])
            /\ awaited' = Pending
            /\ bpc' = "await"
       ELSE /\ bpc' = "done"
            /\ UNCHANGED <<idx, frame, awaited>>
    /\ UNCHANGED <<pureVars, lifeVars, hostVars, config, entry, dataset_urns, results, escaped, outcomes>>

\* one attempt of query_graphql, and the code of get_dataset_schema and
\* enrich_dataset up to the next await, the return or the exception
GetDatasetSchema ==
    /\ frame.pc = "get_dataset_schema"
    /\ awaited' = CatalogResponse(frame.dataset_urn, frame.attempt)
    /\ frame' = AfterQuery(frame, config, awaited')
    /\ UNCHANGED <<pureVars, lifeVars, hostVars, config, entry, dataset_urns, idx, results, bpc, escaped,
                   outcomes>>

\* one attempt of a backend method, and the code of enrich_dataset up to the
\* next await, the return or the exception
GenerateColumnDescriptions ==
    /\ frame.pc = "generate_column_descriptions"
    /\ awaited' = LLM_generate_column_descriptions(config.llm_backend,
                     BackendResponse(config.llm_backend, frame.dataset_urn,
                                     "generate_column_descriptions", frame.attempt))
    /\ frame' = AfterDescriptions(frame, config, awaited')
    /\ UNCHANGED <<pureVars, lifeVars, hostVars, config, entry, dataset_urns, idx, results, bpc, escaped,
                   outcomes>>

DetectPiiColumns ==
    /\ frame.pc = "detect_pii_columns"
    /\ awaited' = LLM_detect_pii_columns(config.llm_backend,
                     BackendResponse(config.llm_backend, frame.dataset_urn,
                                     "detect_pii_columns", frame.attempt))
    /\ frame' = AfterPii(frame, config, awaited')
    /\ UNCHANGED <<pureVars, lifeVars, hostVars, config, entry, dataset_urns, idx, results, bpc, escaped,
                   outcomes>>

SuggestTags ==
    /\ frame.pc = "suggest_tags"
    /\ awaited' = LLM_suggest_tags(config.llm_backend,
                     BackendResponse(config.llm_backend, frame.dataset_urn,
                                     "suggest_tags", frame.attempt))
    /\ frame' = AfterTags(frame, config, awaited')
    /\ UNCHANGED <<pureVars, lifeVars, hostVars, config, entry, dataset_urns, idx, results, bpc, escaped,
                   outcomes>>

\* enrich_dataset is over: results[dataset_urn] = suggestions, or the
\* handler of except Exception
BatchRecord ==
    /\ bpc = "await"
    /\ frame.pc \in {"returned", "raised"}
    /\ outcomes' = Append(outcomes, frame.ret)
    /\ IF frame.ret.exc = "none"
       THEN /\ results' = Record(results, frame.dataset_urn, frame.ret.val)
            /\ bpc' = "loop"
            /\ UNCHANGED escaped
       ELSE IF BatchCatches(frame.ret.exc)
       THEN /\ results' = Record(results, frame.dataset_urn, <<>>)
            /\ bpc' = "loop"
            /\ UNCHANGED escaped
       ELSE /\ escaped' = frame.ret.exc
            /\ bpc' = "raised"
            /\ UNCHANGED results
    /\ UNCHANGED <<pureVars, lifeVars, hostVars, config, entry, dataset_urns, idx, frame, awaited>>

Next ==
    \/ EnrichDataset
    \/ BatchLoop
    \/ GetDatasetSchema
    \/ GenerateColumnDescriptions
    \/ DetectPiiColumns
    \/ SuggestTags
    \/ BatchRecord

Spec == Init /\ [][Next]_vars

\* ------------------------------------------------------------------------
\* SpecFair: enrich_datasets_batch under the event loop
\* ------------------------------------------------------------------------
\* the frame is suspended at a call of a backend method
AtBackendCall == frame.pc \in {Methods[i] : i \in 1..Len(Methods)}

\* the step of GenerateColumnDescriptions, DetectPiiColumns or SuggestTags,
\* whichever the frame is suspended at: one attempt of the backend method and
\* the code of enrich_dataset up to the next await, the return or the
\* exception.  What the attempt produced is not kept in awaited.
BackendCall ==
    /\ AtBackendCall
    /\ frame' = Resume(frame, config, Outcome(frame, config))
    /\ UNCHANGED <<pureVars, lifeVars, hostVars, config, entry, dataset_urns, idx, results,
                   bpc, escaped, awaited, outcomes>>

NextFair ==
    \/ BatchLoop
    \/ GetDatasetSchema
    \/ BackendCall
    \/ BatchRecord

\* where the batch and the running enrich_dataset call are
control == <<bpc, idx, frame>>

\* Each call attempt eventually returns or fails and the event loop then
\* resumes the coroutine; between two awaits the code runs on.  So a step
\* that stays possible is taken: weak fairness of the loop, of the catalog
\* query, of the handler that records a result, and of the backend call.
\* The last is written with its enabling condition spelled out: a backend
\* step is possible exactly when the frame is suspended at a backend method.
Fairness ==
    /\ WF_control(BatchLoop)
    /\ WF_control(GetDatasetSchema)
    /\ WF_control(BatchRecord)
    /\ <>[]AtBackendCall => []<><<BackendCall>>_control

\* The batches explored are those over the datasets whose catalog query
\* fails on every attempt ("down"), whose backend call fails ("timeout"), and
\* whose calls succeed, at once or on a later attempt ("flaky").
FairUrns == {"down", "flaky", "timeout"}
InitFair ==
    /\ PureIdle
    /\ LifeIdle
    /\ HostIdle
    /\ config \in Configs
    /\ entry = "enrich_datasets_batch"
    /\ dataset_urns \in SeqsUpTo(FairUrns, MaxBatch)
    /\ bpc = "loop"
    /\ idx = 0
    /\ results = <<>>
    /\ escaped = "none"
    /\ frame = IdleFrame
    /\ awaited = Pending
    /\ outcomes = <<>>

SpecFair == InitFair /\ [][NextFair]_vars /\ Fairness

\* ------------------------------------------------------------------------
\* SpecLifecycle: configuration, construction of the engine and of the cloud
\* backend, check_connection and apply_suggestion
\* ------------------------------------------------------------------------
\* EnricherConfig.validate_backend
valid_backends == {"claude-code", "anthropic-api"}
validate_backend(v) == IF v \notin valid_backends THEN Raised("ValidationError") ELSE Ret(v)

\* EnricherConfig.validate_api_key_for_backend, the validator that runs after
\* the fields
validate_api_key_for_backend(self) ==
    IF self.llm_backend = "anthropic-api" /\ Falsy(self.anthropic_api_key)
    THEN Raised("ValidationError")
    ELSE Ret(self)

\* a variant that lets zero through
validate_non_negative_int(v) == IF v < 0 THEN Raised("ValidationError") ELSE Ret(v)

\* EnricherConfig.validate_positive_int, the validator of batch_size and of
\* max_retries
validate_positive_int(v) == IF v <= 0 THEN Raised("ValidationError") ELSE Ret(v)

\* EnricherConfig(**kwargs): the field validators, then the model validator
\* when every field passed
EnricherConfig(kwargs) ==
    IF validate_backend(kwargs.llm_backend).exc # "none"
    THEN validate_backend(kwargs.llm_backend)
    ELSE IF validate_positive_int(kwargs.batch_size).exc # "none"
    THEN validate_positive_int(kwargs.batch_size)
    ELSE IF validate_positive_int(kwargs.max_retries).exc # "none"
    THEN validate_positive_int(kwargs.max_retries)
    ELSE validate_api_key_for_backend(kwargs)

\* a variant of the constructor that takes any key
AnthropicAPIServiceAnyKey(config_, env) ==
    IF ~env.anthropic_installed THEN Raised("ImportError")
    ELSE Ret([class |-> "AnthropicAPIService", api_key |-> config_.anthropic_api_key])

\* AnthropicAPIService.__init__: the import, the test of the key, the client
AnthropicAPIService(config_, env) ==
    IF ~env.anthropic_installed THEN Raised("ImportError")
    ELSE IF Falsy(config_.anthropic_api_key) THEN Raised("ValueError")
    ELSE Ret([class |-> "AnthropicAPIService", api_key |-> config_.anthropic_api_key])

\* ClaudeCodeLocalService.__init__
ClaudeCodeLocalService == Ret([class |-> "ClaudeCodeLocalService", api_key |-> JNull])

create_llm_service(config_, env) ==
    IF config_.llm_backend = "claude-code" THEN ClaudeCodeLocalService
    ELSE IF config_.llm_backend = "anthropic-api" THEN AnthropicAPIService(config_, env)
    ELSE Raised("ValueError")

\* EnrichmentEngine.__init__, llm: what create_llm_service returned or raised
EngineWith(config_, llm) ==
    IF llm.exc # "none" THEN llm
    ELSE Ret([config |-> config_, llm_service |-> llm.val])

EnrichmentEngine(config_, env) == EngineWith(config_, create_llm_service(config_, env))

\* client.messages.create, request number n: the API fails the first
\* api_failures requests it receives
MessagesCreate(env, n) == IF n <= env.api_failures THEN Raised("APIError") ELSE Ret("ok")

\* AnthropicAPIService.check_connection, sent requests into the life of the
\* client: one request, True when it succeeds; except Exception: return False
check_connection(env, sent) ==
    [requests |-> sent + 1, ret |-> Ret(MessagesCreate(env, sent + 1).exc = "none")]

\* the write operations of DataHubClient
update_column_description(dataset_urn, field_path, description) ==
    [op |-> "update_column_description", dataset_urn |-> dataset_urn,
     field_path |-> field_path, value |-> description]
add_tag_to_column(dataset_urn, field_path, tag_urn) ==
    [op |-> "add_tag_to_column", dataset_urn |-> dataset_urn,
     field_path |-> field_path, value |-> tag_urn]

\* EnrichmentEngine.apply_suggestion, written the write operations called
\* before: the description branch returns what update_column_description
\* returns (True), the tag branch logs and returns True, any other kind
\* returns False
apply_suggestion(s, written) ==
    IF s.suggestion_type = "description"
    THEN [ret |-> Ret(TRUE),
          writes |-> Append(written, update_column_description(s.dataset_urn, s.field_path,
                                                               s.suggested_value))]
    ELSE IF s.suggestion_type = "tag" THEN [ret |-> Ret(TRUE), writes |-> written]
    ELSE [ret |-> Ret(FALSE), writes |-> written]

\* the settings, the environment and the suggestions explored
SettingsValues ==
    [llm_backend : {"claude-code", "anthropic-api", "openai"},
     anthropic_api_key : {JNull, JStr(<<>>), Str("k")},
     batch_size : {-1, 0, 10},
     max_retries : {-1, 0, 3}]
Environments == [anthropic_installed : BOOLEAN, api_failures : 0..MaxAttempts]
SuggestionKinds == {"description", "tag", "pii", "pii-tag", "dataset-tag", ""}
ApplyInputs ==
    {EnrichmentSuggestion("users", fp, kind, Str("PII")) :
        fp \in {Str("ssn"), JNull}, kind \in SuggestionKinds}

InitLifecycle ==
    /\ PureIdle
    /\ EngineIdle
    /\ HostIdle
    /\ settings \in SettingsValues
    /\ environment \in Environments
    /\ suggestion \in ApplyInputs
    /\ enricher_config = Pending
    /\ engine = Pending
    /\ service = Pending
    /\ requests = 0
    /\ probe = Pending
    /\ writes = <<>>
    /\ applied = Pending

\* enricher_config = EnricherConfig()
LoadConfig ==
    /\ enricher_config = Pending
    /\ enricher_config' = EnricherConfig(settings)
    /\ UNCHANGED <<pureVars, engineVars, hostVars, settings, environment, suggestion, engine,
                   service, requests, probe, writes, applied>>

\* engine = EnrichmentEngine(enricher_config)
NewEngine ==
    /\ enricher_config.exc = "none"
    /\ engine = Pending
    /\ engine' = EnrichmentEngine(enricher_config.val, environment)
    /\ UNCHANGED <<pureVars, engineVars, hostVars, settings, environment, suggestion,
                   enricher_config, service, requests, probe, writes, applied>>

\* llm_service = LLMService(enricher_config), as the test_connection command
\* does whatever the configured backend
NewLLMService ==
    /\ enricher_config.exc = "none"
    /\ service = Pending
    /\ service' = AnthropicAPIService(enricher_config.val, environment)
    /\ UNCHANGED <<pureVars, engineVars, hostVars, settings, environment, suggestion,
                   enricher_config, engine, requests, probe, writes, applied>>

\* an AnthropicAPIService object exists
CloudService ==
    \/ service.exc = "none"
    \/ engine.exc = "none" /\ engine.val.llm_service.class = "AnthropicAPIService"

\* await llm_service.check_connection() on the cloud backend
CheckConnection ==
    /\ CloudService
    /\ probe = Pending
    /\ requests' = check_connection(environment, requests).requests
    /\ probe' = check_connection(environment, requests).ret
    /\ UNCHANGED <<pureVars, engineVars, hostVars, settings, environment, suggestion,
                   enricher_config, engine, service, writes, applied>>

\* await engine.apply_suggestion(suggestion)
ApplySuggestion ==
    /\ engine.exc = "none"
    /\ applied = Pending
    /\ writes' = apply_suggestion(suggestion, writes).writes
    /\ applied' = apply_suggestion(suggestion, writes).ret
    /\ UNCHANGED <<pureVars, engineVars, hostVars, settings, environment, suggestion,
                   enricher_config, engine, service, requests, probe>>

NextLifecycle ==
    \/ LoadConfig
    \/ NewEngine
    \/ NewLLMService
    \/ CheckConnection
    \/ ApplySuggestion

SpecLifecycle == InitLifecycle /\ [][NextLifecycle]_vars

\* ------------------------------------------------------------------------
\* SpecInvoke: ClaudeCodeLocalService._invoke_claude on one run of the
\* claude command
\* ------------------------------------------------------------------------
\* what subprocess.run(cmd, input=prompt, capture_output=True, text=True,
\* timeout=120) hands back: TimeoutExpired raised, or a CompletedProcess with
\* the return code and the two captured streams
TimeoutExpired == [state |-> "TimeoutExpired"]
CompletedProcess(returncode, stdout, stderr) ==
    [state |-> "completed", returncode |-> returncode, stdout |-> stdout,
     stderr |-> stderr]

\* the three RuntimeErrors of _invoke_claude and what their messages embed
InvokeTimedOut ==
    [exc |-> "RuntimeError", message |-> "Claude Code CLI timed out after 120 seconds"]
InvokeFailed(returncode, error_msg) ==
    [exc |-> "RuntimeError", message |-> "Claude Code CLI failed", exit |-> returncode,
     error_msg |-> error_msg]
InvokeEmpty ==
    [exc |-> "RuntimeError", message |-> "Claude Code CLI returned empty output"]

\* error_msg = result.stderr.strip() if result.stderr else "Unknown error"
CC_ErrorMsg(stderr) == IF stderr # <<>> THEN Strip(stderr) ELSE <<"Unknown", SP, "error">>

\* the end of _invoke_claude, r what json.loads(stdout) returned or raised:
\* the value of the result key of a dict, else stdout as it is.  A Python
\* value is returned: a str is JStr(s).
CC_ResponseData(stdout, r) ==
    IF ~r.ok
    THEN IF r.err = "JSONDecodeError" THEN Ret(JStr(stdout)) ELSE Raised(r.err)
    ELSE IF IsDict(r.val) /\ HasKey(r.val, <<"result">>)
         THEN Ret(DictGet(r.val, <<"result">>))
    ELSE Ret(JStr(stdout))

\* stdout = result.stdout.strip(); if not stdout: raise
CC_Stdout(stdout) ==
    IF stdout = <<>> THEN InvokeEmpty
    ELSE CC_ResponseData(stdout, JsonLoads(stdout))

\* a variant that reads stdout before the return code
CC_invoke_claude_StdoutFirst(result) ==
    IF result.state = "TimeoutExpired" THEN InvokeTimedOut
    ELSE IF Strip(result.stdout) # <<>> THEN CC_Stdout(Strip(result.stdout))
    ELSE IF result.returncode # 0
         THEN InvokeFailed(result.returncode, CC_ErrorMsg(result.stderr))
    ELSE InvokeEmpty

\* _invoke_claude(prompt), result how the subprocess ended
CC_invoke_claude(result) ==
    IF result.state = "TimeoutExpired" THEN InvokeTimedOut
    ELSE IF result.returncode # 0
         THEN InvokeFailed(result.returncode, CC_ErrorMsg(result.stderr))
    ELSE CC_Stdout(Strip(result.stdout))

\* the output framing of --output-format json around an answer, and the
\* values a result key may hold
Envelope(v) == JObj(<<Item("type", Str("result")), Item("result", v)>>)
ResultValues ==
    {Str("x"), JStr(<<>>), JStr(<<"x", SP, "x">>), JNull, JNum(1), JBool(FALSE),
     JArr(<<Str("x")>>), JObj(<<Item("ssn", Str("id"))>>)}
\* what the process may have written: nothing, whitespace, plain text, an
\* envelope, JSON that is no envelope, JSON cut short, JSON nested too deep
Stdouts ==
    {<<>>, <<SP>>, <<NL, FF>>, <<"x">>, <<SP, "x", SP, "x", NL>>}
    \cup {Dumps(Envelope(v)) \o <<NL>> : v \in ResultValues}
    \cup {Dumps(JObj(<<Item("result", v)>>)) : v \in ResultValues}
    \cup {Dumps(v) : v \in {JObj(<<Item("type", Str("error"))>>), JObj(<<>>),
                            JArr(<<Str("result")>>), Str("result"), JNum(1), JNull}}
    \cup {<<"{", QUOTE, "result", QUOTE, ":">>, Nested(RecursionLimit + 1)}
Stderrs == {<<>>, <<NL>>, <<"x">>, <<SP, "x", SP, "x", NL>>}
ReturnCodes == {0, 1, -9}
Processes ==
    {TimeoutExpired}
    \cup {CompletedProcess(rc, so, se) : rc \in ReturnCodes, so \in Stdouts, se \in Stderrs}

InitInvoke ==
    /\ PureIdle
    /\ EngineIdle
    /\ LifeIdle
    /\ process \in Processes
    /\ cli = IdleCli

\* response = await self._invoke_claude(prompt)
CC_InvokeClaude ==
    /\ fn = "none"
    /\ fn' = "CC._invoke_claude"
    /\ out' = CC_invoke_claude(process)
    /\ UNCHANGED <<text, response, literal, embedded, engineVars, lifeVars, hostVars>>

NextInvoke == CC_InvokeClaude

SpecInvoke == InitInvoke /\ [][NextInvoke]_vars

\* ------------------------------------------------------------------------
\* SpecCli: the batch command of the command line, from EnricherConfig() to
\* the exit of the process
\* ------------------------------------------------------------------------
\* bound of the number of datasets the search lists
MaxListed == 2

\* the datasets the catalog may list: one whose calls succeed, one whose
\* catalog query fails on every attempt, one whose first attempt fails
CliUrns == {"users", "down", "flaky"}

\* the entity of a search result, as the query of list_datasets selects it
Entity(urn) == JObj(<<Item("urn", Str(urn)), Item("name", Str(urn))>>)
SearchResult(listed) ==
    JObj(<<Item("data", JObj(<<Item("search", JObj(<<Item("searchResults",
        JArr([i \in 1..Len(listed) |->
                JObj(<<Item("entity", Entity(listed[i]))>>)]))>>))>>))>>)

\* what attempt number attempt of the search request produces: the catalog
\* fails the first failures attempts
SearchResponse(listed, failures, attempt) ==
    IF attempt <= failures THEN Raised("HTTPError") ELSE Ret(SearchResult(listed))

\* result.get("data", {}).get("search", {}).get("searchResults", [])
SearchResults(result) ==
    DictGetOr(DictGetOr(DictGetOr(result, <<"data">>, JObj(<<>>)),
                        <<"search">>, JObj(<<>>)),
              <<"searchResults">>, JArr(<<>>))

\* DataHubClient.list_datasets, from the GraphQL result on
list_datasets(result) ==
    [i \in 1..Len(SearchResults(result).a) |->
        DictGet(SearchResults(result).a[i], <<"entity">>)]

\* EnrichmentSuggestion.to_dict
to_dict(s) ==
    [dataset_urn |-> s.dataset_urn, field_path |-> s.field_path,
     suggestion_type |-> s.suggestion_type, suggested_value |-> s.suggested_value]

\* sum(len(suggestions) for suggestions in all_results.values())
RECURSIVE total_suggestions(_, _)
total_suggestions(all_results, keys) ==
    IF keys = {} THEN 0
    ELSE Len(all_results[CHOOSE u \in keys : TRUE])
         + total_suggestions(all_results, keys \ {CHOOSE u \in keys : TRUE})

\* the lines click.echo writes
Found(n) == [line |-> "Found datasets", n |-> n]
Generated(n) == [line |-> "Generated total suggestions", n |-> n]
Error(e) == [line |-> "Error", n |-> 0, e |-> e]

\* the frame of batch(): the call it is suspended at, the attempt number of
\* list_datasets under the retry decorator of query_graphql, its locals, the
\* lines echoed and the exit status of the process (-1 while it runs);
\* catalog and search_failures are what the catalog holds and how its search
\* answers
NewCli(listed, failures) ==
    [pc |-> "batch", catalog |-> listed, search_failures |-> failures, attempt |-> 0,
     datasets |-> <<>>, i |-> 0, all_results |-> <<>>, echoed |-> <<>>, exit |-> -1,
     ret |-> Pending]

\* except Exception as e: click.echo(error), sys.exit(1)
Abort(c, e) ==
    [c EXCEPT !.pc = "exited", !.echoed = Append(@, Error(e)), !.exit = 1,
              !.ret = Raised(e)]

\* the handler itself fails: logger is assigned after EnricherConfig(), so
\* logger.error raises UnboundLocalError and the traceback ends the process
AbortUnbound(c, e) ==
    [c EXCEPT !.pc = "exited", !.exit = 1, !.ret = Raised("UnboundLocalError")]

\* the summary after the loop (no output file asked for), and the end of
\* the command
Summary(c) ==
    [c EXCEPT !.pc = "exited", !.exit = 0, !.ret = Ret(JNull),
              !.echoed = Append(@, Generated(total_suggestions(c.all_results,
                                                               DOMAIN c.all_results)))]

\* dataset_urn = dataset["urn"]
UrnOf(dataset) == DictGet(dataset, <<"urn">>).s[1]

\* for dataset in bar: the next dataset and its urn, or the summary
CliLoop(c) ==
    IF c.i >= Len(c.datasets) THEN Summary(c)
    ELSE IF ~HasKey(c.datasets[c.i + 1], <<"urn">>) THEN Abort(c, "KeyError")
    ELSE [c EXCEPT !.pc = "enrich_dataset", !.i = @ + 1]

\* the frame of enrich_dataset the loop starts, the last one when it ended
CliFrame(c, old) ==
    IF c.pc = "enrich_dataset" THEN NewFrame(UrnOf(c.datasets[c.i])) ELSE old

\* from what the attempts of the search left (c) on: the handler when the
\* retry gave up, the next attempt, or the list, its echo and the loop
AfterSearch(c, r) ==
    IF c.pc = "raised" THEN Abort(c, c.ret.exc)
    ELSE IF r.exc # "none" THEN c
    ELSE CliLoop([c EXCEPT !.datasets = list_datasets(r.val),
                           !.echoed = Append(@, Found(Len(list_datasets(r.val))))])

\* one attempt of the search under the retry decorator of query_graphql
SearchAttempt(c, r) ==
    AfterSearch(IF r.exc # "none" THEN RetryOrRaise(c, TRUE, r.exc) ELSE c, r)

\* the settings explored: both backends, max_retries below, at and above the
\* default, and one value the validator refuses
CliSettings ==
    [llm_backend : Backends, anthropic_api_key : {Str("k")}, batch_size : {10},
     max_retries : {0, 1, 3, 5}]

\* the injective sequences over S of length at most n: a search lists each
\* entity once
Listings(S, n) ==
    {l \in SeqsUpTo(S, n) : \A i, j \in 1..Len(l) : l[i] = l[j] => i = j}

\* the enable_ flags keep their defaults
EngineConfig(config_) ==
    [llm_backend |-> config_.llm_backend, enable_column_descriptions |-> TRUE,
     enable_pii_detection |-> TRUE, enable_tag_suggestions |-> TRUE]

InitCli ==
    /\ PureIdle
    /\ EngineIdle
    /\ settings \in CliSettings
    /\ environment = [anthropic_installed |-> TRUE, api_failures |-> 0]
    /\ suggestion = [t |-> "unset"]
    /\ enricher_config = Pending
    /\ engine = Pending
    /\ service = Pending
    /\ requests = 0
    /\ probe = Pending
    /\ writes = <<>>
    /\ applied = Pending
    /\ process = NoProcess
    /\ cli \in {NewCli(l, n) : l \in Listings(CliUrns, MaxListed), n \in {0, 1, MaxAttempts}}

\* batch(): EnricherConfig(), EnrichmentEngine(enricher_config), and the call
\* of list_datasets; an exception goes to the handler
Batch ==
    /\ cli.pc = "batch"
    /\ enricher_config' = EnricherConfig(settings)
    /\ IF enricher_config'.exc # "none"
       THEN /\ cli' = AbortUnbound(cli, enricher_config'.exc)
            /\ UNCHANGED <<engine, config>>
       ELSE /\ engine' = EnrichmentEngine(enricher_config'.val, environment)
            /\ IF engine'.exc # "none"
               THEN /\ cli' = Abort(cli, engine'.exc)
                    /\ UNCHANGED config
               ELSE /\ cli' = [cli EXCEPT !.pc = "list_datasets", !.attempt = 1]
                    /\ config' = EngineConfig(enricher_config'.val)
    /\ UNCHANGED <<pureVars, entry, dataset_urns, idx, results, bpc, escaped, frame, awaited,
                   outcomes, settings, environment, suggestion, service, requests, probe,
                   writes, applied, process>>

\* one attempt of the search request, and the code of list_datasets and of
\* batch() up to the next attempt, the first enrich_dataset or the exit
ListDatasets ==
    /\ cli.pc = "list_datasets"
    /\ cli' = SearchAttempt(cli, SearchResponse(cli.catalog, cli.search_failures,
                                                cli.attempt))
    /\ frame' = CliFrame(cli', frame)
    /\ UNCHANGED <<pureVars, lifeVars, config, entry, dataset_urns, idx, results, bpc,
                   escaped, awaited, outcomes, process>>

\* what follows asyncio.run(engine.enrich_dataset(dataset_urn)): the entry of
\* all_results and the next dataset, or the handler
Collected(c, f) ==
    IF f.ret.exc # "none" THEN Abort(c, f.ret.exc)
    ELSE CliLoop([c EXCEPT !.all_results =
                     Record(@, f.dataset_urn,
                            [i \in 1..Len(f.ret.val) |-> to_dict(f.ret.val[i])])])

Collect ==
    /\ cli.pc = "enrich_dataset"
    /\ frame.pc \in {"returned", "raised"}
    /\ cli' = Collected(cli, frame)
    /\ frame' = CliFrame(cli', frame)
    /\ UNCHANGED <<pureVars, lifeVars, config, entry, dataset_urns, idx, results, bpc,
                   escaped, awaited, outcomes, process>>

NextCli ==
    \/ Batch
    \/ ListDatasets
    \/ GetDatasetSchema
    \/ GenerateColumnDescriptions
    \/ DetectPiiColumns
    \/ SuggestTags
    \/ Collect

SpecCli == InitCli /\ [][NextCli]_vars

\* ------------------------------------------------------------------------
\* Properties of the engine (Spec)
\* ------------------------------------------------------------------------
Range(seq) == {seq[i] : i \in 1..Len(seq)}

\* C1: the keys of the mapping enrich_datasets_batch returns are exactly the
\* input ids, whatever each id's outcome was; while the loop runs, the keys
\* are the ids it has finished
C1_KeysAreTheInputIds ==
    entry = "enrich_datasets_batch" =>
        /\ bpc = "done" => DOMAIN results = Range(dataset_urns)
        /\ bpc = "loop" => DOMAIN results = {dataset_urns[i] : i \in 1..idx}

\* a batch of a success, an id the catalog does not know and a failure, returned
C1_Witness ==
    /\ bpc = "done"
    /\ Len(outcomes) = 3
    /\ outcomes[1].exc = "none" /\ outcomes[1].val # <<>>
    /\ dataset_urns[2] = "missing" /\ outcomes[2] = Ret(<<>>)
    /\ outcomes[3].exc = "HTTPError"
    /\ DOMAIN results = Range(dataset_urns)

\* C2: when enrich_dataset raises for an id, enrich_datasets_batch records
\* the empty list for that id, and no exception ever leaves
\* enrich_datasets_batch
C2_FailuresRecordedEmpty ==
    /\ escaped = "none"
    /\ bpc # "raised"
    /\ (bpc = "loop" /\ idx > 0 /\ outcomes[idx].exc # "none") =>
           /\ dataset_urns[idx] \in DOMAIN results
           /\ results[dataset_urns[idx]] = <<>>

\* a returned batch in which the schema fetch failed for one id, the backend
\* call for another and the projection of the answer for a third
C2_Witness ==
    /\ bpc = "done"
    /\ escaped = "none"
    /\ Len(outcomes) = 3
    /\ outcomes[1].exc = "HTTPError"
    /\ outcomes[2].exc = "RuntimeError"
    /\ outcomes[3].exc = "AttributeError"
    /\ \A u \in Range(dataset_urns) : results[u] = <<>>

\* enrich_dataset(urn) run on its own, from its first await to its end
RECURSIVE RunFrame(_, _)
RunFrame(f, cfg) ==
    IF f.pc \in {"returned", "raised"} THEN f
    ELSE RunFrame(Resume(f, cfg, Outcome(f, cfg)), cfg)

\* what the batch records for an outcome of enrich_dataset
Recorded(r) == IF r.exc = "none" THEN r.val ELSE <<>>

\* C3: the batch takes every id, also after a failing one, and what it
\* records for an id is what enrich_dataset yields for that id on its own:
\* it does not depend on the other ids of the batch or on their outcomes
C3_EntriesAreIsolated ==
    (entry = "enrich_datasets_batch" /\ bpc = "done") =>
        /\ Len(outcomes) = Len(dataset_urns)
        /\ \A u \in DOMAIN results :
              results[u] = Recorded(RunFrame(NewFrame(u), config).ret)

\* a returned batch of three distinct ids whose second failed and whose first
\* and third have suggestions, different ones
C3_Witness ==
    /\ bpc = "done"
    /\ Len(dataset_urns) = 3
    /\ outcomes[2].exc # "none"
    /\ results[dataset_urns[1]] # <<>>
    /\ results[dataset_urns[3]] # <<>>
    /\ results[dataset_urns[1]] # results[dataset_urns[3]]
    /\ results[dataset_urns[2]] = <<>>

\* C4: for a dataset whose schema has zero columns enrich_dataset returns
\* the empty list and calls no backend method, whatever the flags are
C4_NoColumnsNoCalls ==
    frame.fields = JArr(<<>>) =>
        /\ frame.pc = "returned"
        /\ frame.ret = Ret(<<>>)
        /\ frame.calls = NoCalls

\* enrich_dataset returned for a dataset without columns, every task enabled
C4_Witness ==
    /\ frame.pc = "returned"
    /\ IsDict(frame.dataset)
    /\ frame.fields = JArr(<<>>)
    /\ config.enable_column_descriptions
    /\ config.enable_pii_detection
    /\ config.enable_tag_suggestions

\* the GraphQL results for an id the catalog has no entry for
NotFoundResults == {GraphqlResult(JNull), JObj(<<Item("data", JObj(<<>>))>>)}
NoEntry(urn) ==
    \A a \in 1..MaxAttempts : CatalogResponse(urn, a) \in {Ret(r) : r \in NotFoundResults}

\* C5: for an id the catalog has no entry for, the schema fetch yields an
\* empty result and no exception, and enrich_dataset returns the empty list
\* without raising and without a backend call
C5_NotFoundReturnsEmpty ==
    (frame.pc \notin {"idle", "get_dataset_schema"} /\ NoEntry(frame.dataset_urn)) =>
        /\ awaited.exc = "none"
        /\ frame.dataset \in {JNull, JObj(<<>>)}
        /\ frame.pc = "returned"
        /\ frame.ret = Ret(<<>>)
        /\ frame.calls = NoCalls

\* enrich_dataset called directly returned for an id whose dataset is null
C5_Witness ==
    /\ entry = "enrich_dataset"
    /\ frame.pc = "returned"
    /\ frame.dataset = JNull
    /\ awaited = Ret(GraphqlResult(JNull))

\* the place of a task in the returned list
Rank(task) ==
    CASE task = "generate_column_descriptions" -> 1
      [] task = "detect_pii_columns" -> 2
      [] task = "suggest_tags" -> 3

\* C6: in the list enrich_dataset returns, the suggestions of the
\* descriptions come first, then those of the PII columns, then the dataset
\* tags
C6_OrderOfSuggestions ==
    /\ Len(frame.origin) = Len(frame.suggestions)
    /\ \A i, j \in 1..Len(frame.origin) :
          i < j => Rank(frame.origin[i]) <= Rank(frame.origin[j])
    /\ \A i \in 1..Len(frame.origin) :
          CASE frame.origin[i] = "generate_column_descriptions" ->
                 frame.suggestions[i].suggestion_type = "description"
            [] frame.origin[i] = "detect_pii_columns" ->
                 /\ frame.suggestions[i].suggestion_type = "tag"
                 /\ frame.suggestions[i].suggested_value = Str("PII")
            [] frame.origin[i] = "suggest_tags" ->
                 /\ frame.suggestions[i].suggestion_type = "tag"
                 /\ frame.suggestions[i].field_path = JNull
    /\ frame.pc = "returned" => frame.ret = Ret(frame.suggestions)

\* enrich_dataset returned suggestions of all three tasks
C6_Witness ==
    /\ frame.pc = "returned"
    /\ frame.ret = Ret(frame.suggestions)
    /\ {frame.origin[i] : i \in 1..Len(frame.origin)} = Range(Methods)
    /\ Len(frame.suggestions) >= 5

\* C8: an exception of the schema fetch or of a backend method leaves
\* enrich_dataset as it is: once the call has raised (after the attempts of
\* its retry decorator) the frame is over with that same exception
C8_ExceptionsPropagate ==
    awaited.exc \notin {"none", "pending"} =>
        IF frame.pc = "raised" THEN frame.ret = Raised(awaited.exc)
        ELSE /\ frame.pc \in Range(Methods) \cup {"get_dataset_schema"}
             /\ frame.attempt \in 2..MaxAttempts
             /\ frame.pc = "get_dataset_schema" \/ Decorated(config)

\* enrich_dataset called directly raised the error of a backend call made
\* after an earlier task had produced suggestions
C8_Witness ==
    /\ entry = "enrich_dataset"
    /\ frame.pc = "raised"
    /\ frame.ret = Raised("RuntimeError")
    /\ awaited = Raised("RuntimeError")
    /\ frame.suggestions # <<>>

\* ------------------------------------------------------------------------
\* Properties of the generation methods (SpecBackend)
\* ------------------------------------------------------------------------
\* the method that was applied, its envelope key, and the value its
\* extractor takes from the answer
IsPiiMethod == fn \in {"CC.detect_pii_columns", "API.detect_pii_columns"}
IsTagsMethod == fn \in {"CC.suggest_tags", "API.suggest_tags"}
IsDescriptionsMethod ==
    fn \in {"CC.generate_column_descriptions", "API.generate_column_descriptions"}
IsLocalBackend ==
    fn \in {"CC.generate_column_descriptions", "CC.detect_pii_columns", "CC.suggest_tags"}
EnvelopeKey == IF IsPiiMethod THEN <<"pii_columns">> ELSE <<"suggested_tags">>
Extracted ==
    IF IsLocalBackend THEN CC_extract_json_from_response(response.val)
    ELSE API_extract_json_from_response(response.val)

\* the item is a record with high or medium confidence
Qualifies(item) ==
    DictGetOr(item, <<"confidence">>, JNull) \in {JStr(<<"high">>), JStr(<<"medium">>)}

\* the extracted value is not the envelope of the applied method: wrong
\* top-level type, no envelope key, a list with an element that is not a
\* record, or a record without the field the method projects
EnvelopeMismatch ==
    \/ ~IsDict(Extracted.val)
    \/ /\ ~IsDescriptionsMethod
       /\ \/ ~HasKey(Extracted.val, EnvelopeKey)
          \/ /\ IsList(DictGet(Extracted.val, EnvelopeKey))
             /\ \E i \in 1..Len(DictGet(Extracted.val, EnvelopeKey).a) :
                   LET item == DictGet(Extracted.val, EnvelopeKey).a[i] IN
                   \/ ~IsDict(item)
                   \/ IsTagsMethod /\ ~HasKey(item, <<"tag">>)
                   \/ IsPiiMethod /\ Qualifies(item) /\ ~HasKey(item, <<"field_path">>)

EmptyResult == Ret(<<>>)

\* C7: a generation method whose answer cannot be extracted, or whose
\* extracted value is not the method's envelope, returns its empty result
\* and raises nothing
C7_MismatchReturnsEmpty ==
    (fn # "none" /\ response.exc = "none"
       /\ (Extracted.exc = "ValueError" \/ EnvelopeMismatch))
        => out = EmptyResult

\* detect_pii_columns of the local backend applied to the answer
\* {"pii_columns": ["ssn"]} raised AttributeError
C7_Witness ==
    /\ fn = "CC.detect_pii_columns"
    /\ response = Ret(Dumps(JObj(<<Item("pii_columns", JArr(<<Str("ssn")>>))>>)))
    /\ Extracted.val = JObj(<<Item("pii_columns", JArr(<<Str("ssn")>>))>>)
    /\ out = Raised("AttributeError")

\* the extracted value is an object whose pii_columns is a list of records
PiiRecordList ==
    /\ IsPiiMethod
    /\ response.exc = "none"
    /\ Extracted.exc = "none"
    /\ IsDict(Extracted.val)
    /\ HasKey(Extracted.val, <<"pii_columns">>)
    /\ IsList(DictGet(Extracted.val, <<"pii_columns">>))
    /\ \A i \in 1..Len(DictGet(Extracted.val, <<"pii_columns">>).a) :
          IsDict(DictGet(Extracted.val, <<"pii_columns">>).a[i])

\* the records of the list with high or medium confidence, in order
QualifyingRecords == SelectSeq(DictGet(Extracted.val, <<"pii_columns">>).a, Qualifies)

\* C9 as stated: for a pii_columns list of records the method returns exactly
\* the field paths of the records with high or medium confidence
C9_Original ==
    PiiRecordList =>
        /\ out.exc = "none"
        /\ Range(out.val) =
              {DictGet(QualifyingRecords[i], <<"field_path">>) :
                 i \in {j \in 1..Len(QualifyingRecords) :
                          HasKey(QualifyingRecords[j], <<"field_path">>)}}

\* C9: for a pii_columns list of records in which every record with high or
\* medium confidence has a field_path, the method returns the field paths of
\* exactly those records, in their order; if one of them has no field_path,
\* it returns the empty list
C9_HighAndMediumFieldPaths ==
    PiiRecordList =>
        IF \A i \in 1..Len(QualifyingRecords) : HasKey(QualifyingRecords[i], <<"field_path">>)
        THEN out = Ret([i \in 1..Len(QualifyingRecords) |->
                          DictGet(QualifyingRecords[i], <<"field_path">>)])
        ELSE out = Ret(<<>>)

\* the example: ssn with high and notes with low confidence yields ssn only
C9_Witness ==
    /\ fn = "API.detect_pii_columns"
    /\ response.exc = "none"
    /\ Extracted.exc = "none"
    /\ Extracted.val = JObj(<<Item("pii_columns",
                              JArr(<<PiiItem("ssn", "high"), PiiItem("notes", "low")>>))>>)
    /\ out = Ret(<<Str("ssn")>>)

\* ------------------------------------------------------------------------
\* Properties of the extractor (SpecExtract)
\* ------------------------------------------------------------------------
\* C10: for a text that is a literal with only whitespace around it the
\* extractor returns what json.loads returns for that text, from the direct
\* parse, the first strategy: the fence search and the bracket scan do not
\* decide the result
C10_DirectParseFirst ==
    /\ literal # NoLiteral => JsonLoads(text) = [ok |-> TRUE, val |-> literal]
    /\ (fn # "none" /\ JsonLoads(text).ok) =>
           out = Returned(JsonLoads(text).val, "direct")

\* the extractor applied to a list that holds an object, with whitespace
\* before and after it
C10_Witness ==
    /\ fn = "CC._extract_json_from_response"
    /\ Len(text) > 2
    /\ text[1] \in JsonWs
    /\ text[Len(text)] \in JsonWs
    /\ literal = JArr(<<JObj(<<Item("a", JNum(1))>>), JNum(1)>>)
    /\ out = Returned(literal, "direct")

\* ------------------------------------------------------------------------
\* C11..C13: the fence search, the bracket scan and the failure of the extractor
\* ------------------------------------------------------------------------
HasFence(t) == FindFence(t, 1) # 0

\* the text holds a fenced block whose interior was written from a value
InBlock == embedded.how = "fence"

\* the block's opening fence is the first triple backtick of the text, its
\* interior holds no triple backtick, and the text is no literal by itself
LeadingBlock ==
    /\ InBlock
    /\ FindFence(text, 1) = embedded.open
    /\ ~HasFence(Dumps(embedded.val))
    /\ ~JsonLoads(text).ok

\* C11 as stated: whatever the prose around a fenced block (with or without
\* the json tag) whose interior is a parseable literal, the extractor returns
\* the value of the interior.
C11_Original ==
    (InBlock /\ fn # "none") => (out.exc = "none" /\ out.val = embedded.val)

\* C11: when the opening fence of the block is the first triple backtick of
\* the text, the interior holds no triple backtick and the text is not a
\* literal by itself, the extractor returns the value of the block's interior,
\* found by the fence search, whatever else the prose holds.
C11_LeadingBlockIsReturned ==
    (LeadingBlock /\ fn # "none") => out = Returned(embedded.val, "fence")

\* the block ```json {"a":1} ``` after prose with braces, before more prose
C11_Witness ==
    /\ fn # "none"
    /\ LeadingBlock
    /\ embedded.val = JObj(<<Item("a", JNum(1))>>)
    /\ embedded.open = 5
    /\ text[1] = "{"
    /\ text[embedded.open + 3] = "json"
    /\ text[Len(text)] = "}"
    /\ out = Returned(embedded.val, "fence")

\* the text is commentary, then one list or dict, then commentary
InCommentary == embedded.how = "commentary"

\* the first index of the text that holds an opening brace or bracket
FirstBracket(t) == Min(IF Find(t, "{") = 0 THEN Len(t) + 1 ELSE Find(t, "{"),
                       IF Find(t, "[") = 0 THEN Len(t) + 1 ELSE Find(t, "["))

\* C12 as stated: for unfenced text made of commentary before and after one
\* list or dict, the bracket scan starts at the leftmost brace or bracket and
\* the extractor returns that list or dict.
C12_CommentedValueIsReturned ==
    (InCommentary /\ fn # "none") => (out.exc = "none" /\ out.val = embedded.val)

\* the scan did not start at the leftmost bracket: for a list of dicts in
\* commentary the extractor returned the first dict of the list
C12_Witness ==
    /\ fn # "none"
    /\ InCommentary
    /\ FirstBracket(text) = embedded.open
    /\ text[embedded.open] = "["
    /\ IsList(embedded.val)
    /\ embedded.val.a # <<>>
    /\ out.exc = "none"
    /\ out.via = "scan"
    /\ out.val = embedded.val.a[1]
    /\ IsDict(out.val)

\* none of the three strategies yields a value for the text
NoStrategyParses ==
    /\ ~JsonLoads(text).ok
    /\ ~FenceLoads(FenceSearch(text)).ok
    /\ ~CC_BracketScan(text, "{", "}").ok
    /\ ~CC_BracketScan(text, "[", "]").ok

\* C13 as stated: when no strategy yields a value the extractor raises the
\* extraction failure (ValueError), whose message holds a prefix of the text
\* of at most 200 characters; it raises nothing else and returns nothing.
C13_OnlyExtractionFailure ==
    (fn # "none" /\ NoStrategyParses) =>
        /\ out.exc = "ValueError"
        /\ Len(out.preview) <= PreviewLen
        /\ out.preview = SubSeq(text, 1, Len(out.preview))

\* a text nested deeper than the decoder follows: RecursionError left the
\* extractor
C13_Witness ==
    /\ fn # "none"
    /\ NoStrategyParses
    /\ text \in TooDeep
    /\ out = Raised("RecursionError")

\* ------------------------------------------------------------------------
\* C14..C16: the suggestions enrich_dataset returns
\* ------------------------------------------------------------------------
\* enrich_dataset returned its list of suggestions
HasReturned == frame.pc = "returned"

\* the positions of the returned list that task appended
By(task) == {i \in 1..Len(frame.suggestions) : frame.origin[i] = task}

\* the paths of the columns of the schema fetched in this call
SchemaPaths ==
    IF IsList(frame.fields)
    THEN {DictGetOr(frame.fields.a[i], <<"fieldPath">>, JNull) :
            i \in {j \in 1..Len(frame.fields.a) : IsDict(frame.fields.a[j])}}
    ELSE {}

\* C14 as stated: in the suggestions enrich_dataset returns, field_path is
\* None only in the dataset-level tag suggestions; every description
\* suggestion and every sensitive-column suggestion has a field path.
C14_FieldPathNoneOnlyForDatasetTags ==
    HasReturned =>
        \A i \in 1..Len(frame.suggestions) :
            (frame.suggestions[i].field_path = JNull) => (frame.origin[i] = "suggest_tags")

\* a sensitive-column suggestion was returned with field_path None
C14_Witness ==
    /\ HasReturned
    /\ frame.ret.val = frame.suggestions
    /\ \E i \in By("detect_pii_columns") :
          /\ frame.suggestions[i].field_path = JNull
          /\ frame.suggestions[i].suggested_value = Str("PII")

\* C15 as stated: the kind of every returned suggestion is one of three
\* values, one for descriptions, one for sensitive columns and one for
\* dataset-level tags, so that the kind tells a sensitive-column suggestion
\* from a dataset-level tag suggestion.
C15_KindTellsPiiFromDatasetTag ==
    HasReturned =>
        \A i \in By("detect_pii_columns"), j \in By("suggest_tags") :
            frame.suggestions[i].suggestion_type # frame.suggestions[j].suggestion_type

\* a sensitive-column suggestion and a dataset-level tag suggestion were
\* returned with the same kind
C15_Witness ==
    /\ HasReturned
    /\ \E i \in By("detect_pii_columns"), j \in By("suggest_tags") :
          /\ frame.suggestions[i].suggestion_type = "tag"
          /\ frame.suggestions[j].suggestion_type = "tag"
    /\ \A i \in 1..Len(frame.suggestions) :
          frame.suggestions[i].suggestion_type \in {"description", "tag"}

\* C16 as stated: the field path of every returned description suggestion and
\* of every returned sensitive-column suggestion is the path of a column of
\* the schema fetched for the dataset in the same call.
C16_FieldPathsAreSchemaColumns ==
    HasReturned =>
        \A i \in By("generate_column_descriptions") \cup By("detect_pii_columns") :
            frame.suggestions[i].field_path \in SchemaPaths

\* a description suggestion was returned for a column the schema does not hold
C16_Witness ==
    /\ HasReturned
    /\ SchemaPaths = {Str("ssn")}
    /\ \E i \in By("generate_column_descriptions") :
          frame.suggestions[i].field_path = Str("phantom")

\* ------------------------------------------------------------------------
\* C17: the retry decorator around query_graphql and the methods of
\* AnthropicAPIService
\* ------------------------------------------------------------------------
\* the frame is suspended at a call
AtCall == frame.pc \in {"get_dataset_schema"} \cup Range(Methods)

\* the call the frame made last carries the retry decorator: the catalog
\* query, or a method of the cloud backend
UnderRetry == frame.calls = NoCalls \/ Decorated(config)

Failed(r) == r.exc \notin {"none", "pending"}

\* C17: a call under the retry decorator is attempted at most 3 times; an
\* attempt after the first follows a failed attempt only; after an attempt
\* that succeeded the call is not attempted again; and when the third attempt
\* fails, enrich_dataset ends with the exception of that third attempt.
C17_AtMostThreeAttempts ==
    /\ frame.attempt \in 0..MaxAttempts
    /\ (AtCall /\ frame.attempt > 1) => (UnderRetry /\ Failed(awaited))
    /\ (AtCall /\ awaited.exc = "none") => frame.attempt = 1
    /\ (frame.pc = "raised" /\ Failed(awaited) /\ UnderRetry) =>
          (frame.attempt = MaxAttempts /\ frame.ret = Raised(awaited.exc))
    /\ (frame.pc = "raised" /\ Failed(awaited) /\ ~UnderRetry) =>
          (frame.attempt = 1 /\ frame.ret = Raised(awaited.exc))

\* the catalog failed three times, each time in another way: the third
\* failure left enrich_dataset
C17_Witness ==
    /\ frame.pc = "raised"
    /\ frame.dataset_urn = "outage"
    /\ CatalogResponse("outage", 1) # CatalogResponse("outage", MaxAttempts)
    /\ frame.attempt = MaxAttempts
    /\ awaited = CatalogResponse("outage", MaxAttempts)
    /\ frame.ret = Raised("HTTPStatusError")

\* ------------------------------------------------------------------------
\* C18..C20: the probe of the cloud backend, the credential, apply_suggestion
\* ------------------------------------------------------------------------
\* C18 as stated, for check_connection: the request of the probe is under the
\* retry decorator like those of the three generation methods (C17), so the
\* probe reports a failure only after the request failed 3 times, and
\* succeeds when one of the first 3 requests does.
C18_ProbeIsRetried ==
    probe # Pending =>
        /\ (probe.val = FALSE) => (requests = MaxAttempts)
        /\ (environment.api_failures < MaxAttempts) => (probe.val = TRUE)

\* the API failed one request only: the probe sent that one request and
\* reported the failure
C18_Witness ==
    /\ environment.api_failures = 1
    /\ probe = Ret(FALSE)
    /\ requests = 1

\* the settings select the cloud backend and give no key, or an empty one
NoCredential(c) == Falsy(c.anthropic_api_key)

\* C19: a configuration that selects the cloud backend without a key is
\* refused by the validation of EnricherConfig, and the constructor of the
\* cloud backend refuses any configuration without a key; so every
\* AnthropicAPIService object, in an engine or not, holds a key, and no
\* request is sent without one.
C19_NoCloudBackendWithoutKey ==
    /\ (enricher_config # Pending /\ settings.llm_backend = "anthropic-api"
          /\ NoCredential(settings)) =>
          (enricher_config = Raised("ValidationError") /\ engine = Pending
             /\ service = Pending /\ requests = 0)
    /\ (service # Pending /\ NoCredential(settings)) =>
          (service.exc \in {"ValueError", "ImportError"} /\ requests = 0)
    /\ service.exc = "none" => ~Falsy(service.val.api_key)
    /\ (engine.exc = "none" /\ engine.val.llm_service.class = "AnthropicAPIService") =>
          ~Falsy(engine.val.llm_service.api_key)
    /\ requests > 0 => ~NoCredential(settings)

\* the constructor of the cloud backend refused a configuration that passed
\* the validation because it selects the local backend
C19_Witness ==
    /\ settings.llm_backend = "claude-code"
    /\ settings.anthropic_api_key = JStr(<<>>)
    /\ environment.anthropic_installed
    /\ enricher_config = Ret(settings)
    /\ service = Raised("ValueError")
    /\ requests = 0

\* C20 as stated: apply_suggestion calls the write operation of the catalog
\* that matches the kind, update_column_description for a description and
\* add_tag_to_column for a tag; for any other kind it returns False, calls no
\* write operation and raises nothing.
C20_DispatchByKind ==
    applied # Pending =>
        /\ suggestion.suggestion_type = "description" =>
              writes = <<update_column_description(suggestion.dataset_urn,
                             suggestion.field_path, suggestion.suggested_value)>>
        /\ suggestion.suggestion_type = "tag" =>
              writes = <<add_tag_to_column(suggestion.dataset_urn, suggestion.field_path,
                                            suggestion.suggested_value)>>
        /\ suggestion.suggestion_type \notin {"description", "tag"} =>
              (applied = Ret(FALSE) /\ writes = <<>>)

\* a tag suggestion was applied: True was returned and nothing was written
C20_Witness ==
    /\ suggestion.suggestion_type = "tag"
    /\ applied = Ret(TRUE)
    /\ writes = <<>>

\* ------------------------------------------------------------------------
\* Properties of _invoke_claude (SpecInvoke)
\* ------------------------------------------------------------------------
Invoked == fn = "CC._invoke_claude"
Completed == process.state = "completed"
Blank(t) == \A i \in 1..Len(t) : t[i] \in PyWs

\* C21: an invocation fails and hands back no answer in each of three cases,
\* tested in this order: the subprocess ran into the 120-second timeout (the
\* timeout failure); it exited non-zero, whatever it wrote to its output (the
\* invocation failure, which carries the exit code and the stripped
\* diagnostic stream when there is one); it exited zero and its output is
\* empty or only whitespace (the empty-output failure).
C21_InvocationFailures ==
    Invoked =>
        /\ process.state = "TimeoutExpired" => out = InvokeTimedOut
        /\ Completed /\ process.returncode # 0 =>
              /\ out.exc = "RuntimeError"
              /\ out.message = "Claude Code CLI failed"
              /\ out.exit = process.returncode
              /\ process.stderr # <<>> => out.error_msg = Strip(process.stderr)
        /\ Completed /\ process.returncode = 0 /\ Blank(process.stdout) =>
              out = InvokeEmpty

\* a process that exited non-zero after writing a well-formed envelope and a
\* diagnostic: the invocation failed
C21_Witness ==
    /\ Invoked
    /\ Completed
    /\ process.returncode # 0
    /\ process.stdout = Dumps(Envelope(Str("x"))) \o <<NL>>
    /\ process.stderr = <<SP, "x", SP, "x", NL>>
    /\ out.exc = "RuntimeError"
    /\ out.error_msg = <<"x", SP, "x">>

\* the process exited zero and wrote something besides whitespace
WroteOutput == Completed /\ process.returncode = 0 /\ ~Blank(process.stdout)
\* what the output is when read as JSON
OutputData == JsonLoads(Strip(process.stdout))
HasResultField ==
    OutputData.ok /\ IsDict(OutputData.val) /\ HasKey(OutputData.val, <<"result">>)

\* C22: when the process exited zero with output that is not blank, the
\* invocation returns a text: what the result field holds when the output is
\* an object with a result field, the stripped output itself in every other
\* case.
C22_AnswerIsText ==
    Invoked /\ WroteOutput =>
        /\ out.exc = "none"
        /\ IsStr(out.val)
        /\ out.val = IF HasResultField THEN DictGet(OutputData.val, <<"result">>)
                     ELSE JStr(Strip(process.stdout))

\* the output {"result": null}: the invocation returned None
C22_Witness ==
    /\ Invoked
    /\ Completed
    /\ process.stdout = Dumps(JObj(<<Item("result", JNull)>>))
    /\ process.returncode = 0
    /\ out = Ret(JNull)

\* ------------------------------------------------------------------------
\* Further properties of the engine (Spec)
\* ------------------------------------------------------------------------
\* the feature flag of a task, read from the configuration
Flag(task) ==
    CASE task = "generate_column_descriptions" -> config.enable_column_descriptions
      [] task = "detect_pii_columns" -> config.enable_pii_detection
      [] task = "suggest_tags" -> config.enable_tag_suggestions
Tasks == {"generate_column_descriptions", "detect_pii_columns", "suggest_tags"}
\* the frame got past the test of the fields: the dataset has a column
HasColumns == frame.fields # Unset /\ ~Falsy(frame.fields)
Over == frame.pc \in {"returned", "raised"}

\* C23 as stated: on a dataset with a column, every enrich_dataset call that
\* is over called each task whose flag is on exactly once, and called no
\* task whose flag is off.
C23_Original ==
    Over /\ HasColumns =>
        \A task \in Tasks : frame.calls[task] = IF Flag(task) THEN 1 ELSE 0

\* C23: each task is gated by its own flag.  A task whose flag is off is
\* never called and contributes no suggestion; a task is called at most
\* once; and an enrich_dataset call that returns on a dataset with a column
\* has called each task whose flag is on exactly once.
C23_TasksGatedByTheirFlags ==
    /\ \A task \in Tasks :
          /\ frame.calls[task] <= 1
          /\ ~Flag(task) => frame.calls[task] = 0 /\ task \notin Range(frame.origin)
    /\ frame.pc = "returned" /\ HasColumns =>
          \A task \in Tasks : Flag(task) => frame.calls[task] = 1

\* only the PII flag is on: the call returned PII suggestions after one call
\* of detect_pii_columns and none of the two other tasks
C23_Witness ==
    /\ frame.pc = "returned"
    /\ HasColumns
    /\ ~config.enable_column_descriptions
    /\ config.enable_pii_detection
    /\ ~config.enable_tag_suggestions
    /\ frame.calls = [NoCalls EXCEPT !["detect_pii_columns"] = 1]
    /\ frame.suggestions # <<>>

\* ------------------------------------------------------------------------
\* Further properties of the life of an engine (SpecLifecycle)
\* ------------------------------------------------------------------------
\* C24: a configuration object that was constructed names one of the two
\* backends and holds a positive batch_size and a positive max_retries;
\* settings with an unknown backend, or with a batch_size or a max_retries
\* that is zero or negative, are rejected with a validation error and no
\* object exists.
C24_ValidatedFields ==
    /\ enricher_config.exc = "none" =>
          /\ enricher_config.val.llm_backend \in {"claude-code", "anthropic-api"}
          /\ enricher_config.val.batch_size > 0
          /\ enricher_config.val.max_retries > 0
    /\ (enricher_config # Pending
        /\ (\/ settings.llm_backend \notin {"claude-code", "anthropic-api"}
            \/ settings.batch_size <= 0
            \/ settings.max_retries <= 0)) =>
          /\ enricher_config.exc = "ValidationError"
          /\ engine = Pending

\* the local backend with batch_size 10 and max_retries 0: rejected
C24_Witness ==
    /\ settings.llm_backend = "claude-code"
    /\ settings.batch_size = 10
    /\ settings.max_retries = 0
    /\ enricher_config = Raised("ValidationError")

\* ------------------------------------------------------------------------
\* Termination of the batch (SpecFair)
\* ------------------------------------------------------------------------
\* C25: every call of enrich_datasets_batch returns: once the batch is
\* entered, it eventually reaches its return statement with a result for
\* the list it was given, each call attempt having returned or failed (and
\* an attempt that returned or failed always moves the frame on).
C25_BatchCompletes ==
    /\ [](AtBackendCall => Resume(frame, config, Outcome(frame, config)) # frame)
    /\ (entry = "enrich_datasets_batch") ~>
          (bpc = "done" /\ idx = Len(dataset_urns) /\ Len(outcomes) = Len(dataset_urns))

\* a batch that returned after the catalog was tried three times for one
\* dataset and twice for another
C25_Witness ==
    /\ entry = "enrich_datasets_batch"
    /\ bpc = "done"
    /\ "down" \in Range(dataset_urns)
    /\ "flaky" \in Range(dataset_urns)
    /\ \E i \in 1..Len(outcomes) : outcomes[i].exc = "HTTPError"

\* ------------------------------------------------------------------------
\* Properties of the batch command (SpecCli)
\* ------------------------------------------------------------------------
\* the configuration the command loaded
Loaded == enricher_config.exc = "none"

\* the search of list_datasets ended in the handler after its last attempt
SearchGaveUp == cli.pc = "exited" /\ cli.ret = Raised("HTTPError") /\ cli.datasets = <<>>
                /\ frame = IdleFrame

\* C26 as stated: the attempt ceiling of the calls under the retry decorator
\* (the catalog GraphQL call of list_datasets and of get_dataset_schema, the
\* methods of the remote backend) is the configured max_retries: no attempt
\* beyond it is made, and a call that keeps failing is given up at that
\* attempt number.
C26_CeilingFollowsMaxRetries ==
    Loaded =>
        /\ cli.attempt <= enricher_config.val.max_retries
        /\ SearchGaveUp => cli.attempt = enricher_config.val.max_retries
        /\ (AtCall /\ UnderRetry) => frame.attempt <= enricher_config.val.max_retries
        /\ (frame.pc = "raised" /\ Failed(awaited) /\ UnderRetry) =>
              frame.attempt = enricher_config.val.max_retries

\* max_retries is 5 and the catalog query of a dataset was given up after
\* its third failed attempt
C26_Witness ==
    /\ Loaded
    /\ enricher_config.val.max_retries = 5
    /\ frame.pc = "raised"
    /\ frame.dataset_urn = "down"
    /\ awaited = Raised("HTTPError")
    /\ frame.attempt = MaxAttempts

\* the urns the search listed
ListedUrns == {UrnOf(cli.datasets[i]) : i \in 1..Len(cli.datasets)}

\* the command obtained the list of datasets and has ended
ListedAndOver ==
    /\ cli.pc = "exited"
    /\ \E k \in 1..Len(cli.echoed) : cli.echoed[k].line = "Found datasets"

\* C27 as stated: once the datasets are listed the batch command completes
\* (exit status 0) with a result for every listed dataset, the failed ones
\* with zero suggestions, and its summary counts those results.
C27_BatchCommandCompletes ==
    ListedAndOver =>
        /\ cli.exit = 0
        /\ DOMAIN cli.all_results = ListedUrns
        /\ \A u \in ListedUrns :
              CatalogResponse(u, MaxAttempts).exc # "none" => cli.all_results[u] = <<>>
        /\ cli.echoed[Len(cli.echoed)] =
              Generated(total_suggestions(cli.all_results, ListedUrns))

\* the first of two listed datasets failed: the command ended with status 1
\* and the second was never enriched
C27_Witness ==
    /\ ListedAndOver
    /\ Len(cli.datasets) = 2
    /\ UrnOf(cli.datasets[1]) = "down"
    /\ UrnOf(cli.datasets[2]) = "users"
    /\ cli.i = 1
    /\ frame.ret = Raised("HTTPError")
    /\ cli.exit = 1
    /\ cli.all_results = <<>>
    /\ cli.echoed[Len(cli.echoed)] = Error("HTTPError")

\* ------------------------------------------------------------------------
\* C28, C29: entries without columns, and what a failed task leaves (Spec)
\* ------------------------------------------------------------------------
\* the entry d holds no column: no schemaMetadata key, a null schemaMetadata,
\* a schemaMetadata without fields, or an empty fields list
NoColumns(d) ==
    \/ ~HasKey(d, <<"schemaMetadata">>)
    \/ DictGet(d, <<"schemaMetadata">>) = JNull
    \/ /\ IsDict(DictGet(d, <<"schemaMetadata">>))
       /\ \/ ~HasKey(DictGet(d, <<"schemaMetadata">>), <<"fields">>)
          \/ DictGet(DictGet(d, <<"schemaMetadata">>), <<"fields">>) = JArr(<<>>)

\* the catalog returned an entry for the dataset of the frame
Fetched == IsDict(frame.dataset) /\ ~Falsy(frame.dataset)

\* C28 as stated: for a fetched entry that holds no column, in whichever of
\* the four shapes, enrich_dataset returns the empty list, raises nothing and
\* calls no backend method.
C28_NoColumnsInAnyShape ==
    (Fetched /\ NoColumns(frame.dataset)) =>
        /\ frame.pc = "returned"
        /\ frame.ret = Ret(<<>>)
        /\ frame.calls = NoCalls

\* the catalog answered schemaMetadata: null and enrich_dataset raised
C28_Witness ==
    /\ Fetched
    /\ HasKey(frame.dataset, <<"schemaMetadata">>)
    /\ DictGet(frame.dataset, <<"schemaMetadata">>) = JNull
    /\ frame.pc = "raised"
    /\ frame.ret = Raised("AttributeError")
    /\ frame.calls = NoCalls

\* the batch has recorded the end of the enrich_dataset call of the frame
RecordedFrame == bpc \in {"loop", "done"} /\ idx > 0 /\ Len(outcomes) = idx

\* C29: enrich_dataset is all-or-nothing.  A call that ended with an
\* exception hands back no suggestion, whatever the earlier tasks appended,
\* and enrich_datasets_batch records the empty list for its dataset; a call
\* returns exactly what its tasks appended, and returns a non-empty list only
\* after every enabled task was called and returned.
C29_AllOrNothing ==
    /\ frame.pc = "raised" => DOMAIN frame.ret = {"exc"} /\ frame.ret.exc # "none"
    /\ (frame.pc = "raised" /\ RecordedFrame) => results[frame.dataset_urn] = <<>>
    /\ \A i \in 1..Len(outcomes) :
          outcomes[i].exc # "none" => results[dataset_urns[i]] = <<>>
    /\ frame.pc = "returned" => frame.ret.val \in {<<>>, frame.suggestions}
    /\ (frame.pc = "returned" /\ frame.ret.val # <<>>) =>
          \A i \in 1..Len(Methods) :
             Enabled(config, Methods[i]) => frame.calls[Methods[i]] = 1
    /\ \A u \in DOMAIN results :
          results[u] # <<>> =>
             \E i \in 1..Len(outcomes) : dataset_urns[i] = u /\ outcomes[i] = Ret(results[u])

\* in a batch the descriptions of a dataset were appended, the next task
\* failed, and the empty list was recorded for the dataset
C29_Witness ==
    /\ entry = "enrich_datasets_batch"
    /\ RecordedFrame
    /\ frame.pc = "raised"
    /\ frame.suggestions # <<>>
    /\ frame.calls["generate_column_descriptions"] = 1
    /\ frame.calls["detect_pii_columns"] = 1
    /\ results[frame.dataset_urn] = <<>>

\* ------------------------------------------------------------------------
\* C30: the two backends on the same answer (SpecBackend)
\* ------------------------------------------------------------------------
\* what the method fn of the other backend makes of the same response
OtherBackend ==
    CASE fn = "CC.generate_column_descriptions" -> API_generate_column_descriptions(response)
      [] fn = "CC.detect_pii_columns" -> API_detect_pii_columns(response)
      [] fn = "CC.suggest_tags" -> API_suggest_tags(response)
      [] fn = "API.generate_column_descriptions" -> CC_generate_column_descriptions(response)
      [] fn = "API.detect_pii_columns" -> CC_detect_pii_columns(response)
      [] fn = "API.suggest_tags" -> CC_suggest_tags(response)

\* C30: on every answer text the extractors of ClaudeCodeLocalService and of
\* AnthropicAPIService return the same value through the same strategy, or
\* raise the same error; and each generation method returns the same result
\* or raises the same exception in both backends.  The extractors are
\* compared on the answer as it arrives, before a method is applied to it.
C30_OneContract ==
    /\ (fn = "none" /\ response.exc = "none") =>
          CC_extract_json_from_response(response.val)
             = API_extract_json_from_response(response.val)
    /\ fn # "none" => out = OtherBackend

\* the PII method of a backend was applied to an answer that holds its value
\* in a fenced block, and returned columns
C30_Witness ==
    /\ fn \in {"CC.detect_pii_columns", "API.detect_pii_columns"}
    /\ response.exc = "none"
    /\ HasFence(response.val)
    /\ CC_extract_json_from_response(response.val).exc = "none"
    /\ out.exc = "none"
    /\ out.val # <<>>

====
